---- MODULE Spec2Model ----
(***************************************************************************)
(* Torrent search aggregation (torrent_search.py) and the TorrServer        *)
(* playback trigger (app.py) of stream-finder-torrent.                      *)
(*                                                                         *)
(* Text that the code parses is a sequence of one-character strings; text   *)
(* that the code only concatenates is a sequence of string chunks whose     *)
(* value is their concatenation.                                            *)
(***************************************************************************)
EXTENDS Integers, Sequences, FiniteSets, TLC

VARIABLES
    providers,       \* TorrentSearcher.providers: identifier -> provider class
    provider_order,  \* the entries of the dictionary self.providers in
                     \* insertion order, a deleted key leaving a dummy entry
    provider_usable, \* the entries the dictionary's table can still take
    registry_ops,    \* the add_provider and remove_provider calls made so far
    working_mirror,  \* the value last assigned to a TPBProvider's
                     \* _working_mirror (0 is None, else mirror index)
    pc,              \* position of the search_torrents call
    query,           \* the media_type argument of the call in progress, which
                     \* is that of its SearchQuery once the query is built
    idx,             \* position in providers_to_try (for provider_name in ...)
    mirror,          \* position in TPBProvider.mirrors (for mirror in ...)
    all_results,     \* search_torrents' all_results list
    log,             \* provider invocations, HTTP requests and sleeps, in order
    outcome,         \* "none" | "returned" | "raised"
    output           \* the list search_torrents returned

searchVars == <<providers, provider_order, provider_usable, registry_ops,
                working_mirror,
                pc, query, idx, mirror, all_results, log, outcome, output>>

VARIABLES
    play_pc,         \* position of the add_torrent call
    magnet_link,     \* add_torrent's argument
    hash_string,     \* the hash _extract_hash returned
    http,            \* the requests sent to TorrServer and their answers, in order
    play_outcome,    \* "none" | "returned" | "raised"
    result           \* the dictionary add_torrent returned

playVars == <<play_pc, magnet_link, hash_string, http, play_outcome, result>>

VARIABLES
    fn_call,         \* the property or function evaluated last, with its arguments
    fn_ret           \* the value it gave

funVars == <<fn_call, fn_ret>>

VARIABLES
    callers,         \* concurrent add_torrent calls: position, argument, hash, result
    daemon_torrents, \* the hashes TorrServer holds, in the order they were added
    daemon_posts     \* the POST /torrents requests TorrServer received, in order

concVars == <<callers, daemon_torrents, daemon_posts>>

VARIABLES
    status_call,     \* the get_tracker_status call: its position, its iterator
                     \* over self.providers.items(), the exception it raised
    status_dict,     \* get_tracker_status' status dictionary
    status_gets      \* the availability requests the call sent, in order

statusVars == <<status_call, status_dict, status_gets>>

vars == <<searchVars, playVars, funVars, concVars, statusVars>>

---------------------------------------------------------------------------
(* Bounds of the model *)

MaxMovies == 3      \* movie entries in an enumerated YTS response
MaxRows == 2        \* table rows in an enumerated TPB page
MaxTorrents == 2    \* entries in an enumerated TorrServer torrent list
BulkMovies == 11    \* movie entries in the large YTS response
MaxSeeders == 60    \* largest seeder count handed to health_score
MaxLeechers == 3    \* largest leecher count handed to health_score
MaxSeason == 11     \* largest season and episode number of a SearchQuery
MaxPosts == 2       \* POSTs TorrServer has received when a concurrent call may still begin
MaxRegistryOps == 7 \* add_provider and remove_provider calls in a behaviour
MaxTags == 2        \* tokens that follow the title in a torrent name

(* Program constants *)

MAX_TORRENT_RESULTS == 20
YTS_MOVIE_LIMIT == 10

---------------------------------------------------------------------------
(* Generic helpers *)

Min(a, b) == IF a <= b THEN a ELSE b

Range(s) == {s[i] : i \in 1..Len(s)}

Take(s, n) == SubSeq(s, 1, Min(n, Len(s)))

SeqsUpTo(S, n) == UNION {[1..k -> S] : k \in 0..n}

RECURSIVE Flatten(_)
Flatten(ss) == IF ss = <<>> THEN <<>> ELSE Head(ss) \o Flatten(Tail(ss))

Repeat(piece, n) == Flatten([i \in 1..n |-> piece])

---------------------------------------------------------------------------
(* JSON scalars as the providers hand them over: a number, or null. *)

Num(n) == [type |-> "int", val |-> n]

Null == [type |-> "null", val |-> 0]

IsNum(v) == v.type = "int"

---------------------------------------------------------------------------
(* Text helpers: a text is a sequence of one-character strings. *)

HexChars == {"0", "1", "2", "3", "4", "5", "6", "7", "8", "9",
             "a", "b", "c", "d", "e", "f", "A", "B", "C", "D", "E", "F"}

UpperLetters == <<"A", "B", "C", "D", "E", "F", "G", "H", "I", "J", "K", "L", "M",
                  "N", "O", "P", "Q", "R", "S", "T", "U", "V", "W", "X", "Y", "Z">>

LowerLetters == <<"a", "b", "c", "d", "e", "f", "g", "h", "i", "j", "k", "l", "m",
                  "n", "o", "p", "q", "r", "s", "t", "u", "v", "w", "x", "y", "z">>

\* str.lower() on one character
LowerChar(c) ==
    IF \E i \in 1..Len(UpperLetters) : UpperLetters[i] = c
    THEN LowerLetters[CHOOSE i \in 1..Len(UpperLetters) : UpperLetters[i] = c]
    ELSE c

\* str.lower()
Lower(s) == [i \in 1..Len(s) |-> LowerChar(s[i])]

\* str.startswith(prefix)
StartsWith(s, prefix) ==
    /\ Len(s) >= Len(prefix)
    /\ SubSeq(s, 1, Len(prefix)) = prefix

\* sub occurs in text as a run of consecutive elements
Contains(text, sub) ==
    \E i \in 0..(Len(text) - Len(sub)) : SubSeq(text, i + 1, i + Len(sub)) = sub

\* number of consecutive hexadecimal characters of s from position i on
RECURSIVE HexRun(_, _)
HexRun(s, i) ==
    IF i <= Len(s) /\ s[i] \in HexChars THEN 1 + HexRun(s, i + 1) ELSE 0

\* the literal `lit` followed by ([a-fA-F0-9]{40}|[a-fA-F0-9]{32}) matches at i
HashPatternAt(s, lit, i) ==
    /\ i + Len(lit) - 1 <= Len(s)
    /\ SubSeq(s, i, i + Len(lit) - 1) = lit
    /\ HexRun(s, i + Len(lit)) >= 32

\* re.search of  lit([a-fA-F0-9]{40}|[a-fA-F0-9]{32}) : the leftmost match, the
\* 40-character alternative first; group(1) of the match, or no match
HashPatternSearch(s, lit) ==
    IF \E i \in 1..Len(s) : HashPatternAt(s, lit, i)
    THEN LET i == CHOOSE j \in 1..Len(s) :
                      /\ HashPatternAt(s, lit, j)
                      /\ \A k \in 1..(j - 1) : ~HashPatternAt(s, lit, k)
             start == i + Len(lit)
             n == IF HexRun(s, start) >= 40 THEN 40 ELSE 32
         IN  [matched |-> TRUE, group |-> SubSeq(s, start, start + n - 1)]
    ELSE [matched |-> FALSE, group |-> <<>>]

UrnLiteral == <<"u", "r", "n", ":", "b", "t", "i", "h", ":">>

MagnetScheme == <<"m", "a", "g", "n", "e", "t", ":">>

XtLiteral == MagnetScheme \o <<"?", "x", "t", "=">> \o UrnLiteral

---------------------------------------------------------------------------
(* TorrentResult and its derived properties *)

TorrentResult(name, seeders, leechers, source, hash) ==
    [name |-> name, seeders |-> seeders, leechers |-> leechers,
     source |-> source, hash |-> hash]

\* TorrentResult.health_score raises TypeError on a seeder count that is no number
HealthScoreRaises(t) == ~IsNum(t.seeders)

\* (mutant) twice the seeders, starting over at 100
health_score_wrapping(t) ==
    IF t.seeders.val = 0 THEN 0 ELSE (t.seeders.val * 2) % 100

\* (mutant) twice the seeders, without the ceiling of 100
health_score_unbounded(t) ==
    IF t.seeders.val = 0 THEN 0 ELSE t.seeders.val * 2

health_score(t) ==
    IF t.seeders.val = 0 THEN 0
    ELSE IF t.seeders.val >= 50 THEN 100
    ELSE Min(100, t.seeders.val * 2)

\* TorrentResult.ratio raises TypeError when max(leechers, 1) or the division
\* meets a value that is no number
RatioRaises(t) == ~IsNum(t.seeders) \/ ~IsNum(t.leechers)

---------------------------------------------------------------------------
(* YTSProvider: one GET to the list_movies API, one result per torrent with a  *)
(* hash of the first YTS_MOVIE_LIMIT movies.                                    *)

Hash40(c) == [i \in 1..40 |-> c]

Hash32(c) == [i \in 1..32 |-> c]

\* one entry of a movie's "torrents" array
Torrent(hash, seeds, peers) == [hash |-> hash, seeds |-> seeds, peers |-> peers]

\* one entry of data.movies; has_title is FALSE when the entry carries no
\* "title"/"year" key
Movie(has_title, torrents) == [has_title |-> has_title, torrents |-> torrents]

MovieShapes ==
    { Movie(TRUE, <<>>),
      Movie(TRUE, <<Torrent(Hash40("a"), Num(10), Num(1))>>),
      Movie(TRUE, <<Torrent(Hash40("b"), Num(60), Num(5))>>),
      Movie(TRUE, <<Torrent(Hash40("c"), Num(10), Num(0))>>),
      Movie(TRUE, <<Torrent(Hash40("d"), Num(70), Num(2)),
                    Torrent(<<>>, Num(60), Num(1)),
                    Torrent(Hash40("e"), Num(0), Num(0))>>),
      Movie(TRUE, <<Torrent(Hash40("f"), Null, Num(0))>>),
      Movie(TRUE, <<Torrent(Hash40("f"), Num(10), Null)>>),
      Movie(FALSE, <<Torrent(Hash40("a"), Num(10), Num(1))>>) }

\* a response with many well-formed entries of three torrents each
BulkResponseMovies ==
    [i \in 1..BulkMovies |->
        Movie(TRUE, [j \in 1..3 |->
            Torrent(Hash40("a"), Num(((i * 7 + j * 13) % 6) * 12), Num((i + j) % 3))])]

YTSFailures == {"connection_error", "timeout", "http_error", "bad_json"}

\* what the YTS API can answer: a transport failure, a non-2xx status, a body
\* that is no JSON object, a JSON object whose status is not "ok", or a list
\* of movies
YTSResponses ==
    {[kind |-> k, movies |-> <<>>] : k \in YTSFailures \cup {"not_ok"}}
    \cup {[kind |-> "ok", movies |-> m] : m \in SeqsUpTo(MovieShapes, MaxMovies)}
    \cup {[kind |-> "ok", movies |-> BulkResponseMovies]}

\* building a TorrentResult of this movie reads movie['title'] and raises
\* KeyError when the key is missing and a torrent has a hash
MovieRaises(m) ==
    /\ ~m.has_title
    /\ \E j \in 1..Len(m.torrents) : m.torrents[j].hash # <<>>

\* the results of movie number i of the response: one per torrent with a hash;
\* the name stands for "{title} ({year}) {quality} [YTS]" of entry i, torrent j
RECURSIVE MovieResults(_, _, _)
MovieResults(m, i, j) ==
    IF j > Len(m.torrents) THEN <<>>
    ELSE LET t == m.torrents[j]
         IN  (IF t.hash # <<>>
              THEN <<TorrentResult(<<i, j>>, t.seeds, t.peers, "YTS", t.hash)>>
              ELSE <<>>)
             \o MovieResults(m, i, j + 1)

YTSMovieSlice(movies) == Take(movies, YTS_MOVIE_LIMIT)

\* the first entry of ms whose conversion raises
FirstRaising(ms) ==
    CHOOSE i \in 1..Len(ms) :
        MovieRaises(ms[i]) /\ \A k \in 1..(i - 1) : ~MovieRaises(ms[k])

\* the results appended for the entries before entry n
BuiltBefore(ms, n) == Flatten([i \in 1..(n - 1) |-> MovieResults(ms[i], i, 1)])

\* what the API answered, as seen from outside the provider: an answer the
\* search fails on before any result is built (the request failed, or the
\* first entry that gives a result cannot be converted), one it fails on after
\* earlier entries gave results, or one that is served whole
YTSAnswerClass(resp) ==
    LET ms == YTSMovieSlice(resp.movies)
    IN  IF resp.kind \in YTSFailures THEN "failed"
        ELSE IF resp.kind = "ok" /\ \E i \in 1..Len(ms) : MovieRaises(ms[i])
        THEN IF BuiltBefore(ms, FirstRaising(ms)) # <<>>
             THEN "failed_after_results"
             ELSE "failed"
        ELSE "served"

\* (mutant) an entry whose conversion raises ends the loop, and the results
\* built before it are returned
YTSProviderSearchKeepsBuilt(q, resp) ==
    IF q.media_type # "movie"
    THEN [requested |-> FALSE, raised |-> FALSE, results |-> <<>>]
    ELSE IF resp.kind \in YTSFailures
    THEN [requested |-> TRUE, raised |-> TRUE, results |-> <<>>]
    ELSE IF resp.kind = "not_ok" \/ resp.movies = <<>>
    THEN [requested |-> TRUE, raised |-> FALSE, results |-> <<>>]
    ELSE LET ms == YTSMovieSlice(resp.movies)
         IN  IF \E i \in 1..Len(ms) : MovieRaises(ms[i])
             THEN [requested |-> TRUE, raised |-> FALSE,
                   results |-> BuiltBefore(ms, FirstRaising(ms))]
             ELSE [requested |-> TRUE, raised |-> FALSE,
                   results |-> Flatten([i \in 1..Len(ms) |-> MovieResults(ms[i], i, 1)])]

\* YTSProvider.search: [requested, raised, results]
YTSProviderSearch(q, resp) ==
    IF q.media_type # "movie"
    THEN [requested |-> FALSE, raised |-> FALSE, results |-> <<>>]
    ELSE IF resp.kind \in YTSFailures
    THEN [requested |-> TRUE, raised |-> TRUE, results |-> <<>>]
    ELSE IF resp.kind = "not_ok" \/ resp.movies = <<>>
    THEN [requested |-> TRUE, raised |-> FALSE, results |-> <<>>]
    ELSE LET ms == YTSMovieSlice(resp.movies)
         IN  IF \E i \in 1..Len(ms) : MovieRaises(ms[i])
             THEN [requested |-> TRUE, raised |-> TRUE, results |-> <<>>]
             ELSE [requested |-> TRUE, raised |-> FALSE,
                   results |-> Flatten([i \in 1..Len(ms) |-> MovieResults(ms[i], i, 1)])]

---------------------------------------------------------------------------
(* TPBProvider: the mirrors in order, regex parsing of the result table.       *)

Mirrors == <<"https://thepiratebay.org", "https://tpb.party",
             "https://thepiratebay10.org", "https://piratebay.live",
             "https://thepiratebay.zone">>

\* one <tr> of the searchResult table: whether the detLink anchor is there, the
\* href of the magnet anchor (<<>> when there is none), and the numbers of
\* its right-aligned cells
Row(has_name, magnet, cells) == [has_name |-> has_name, magnet |-> magnet, cells |-> cells]

RowMagnet(hash) == XtLiteral \o hash \o <<"&", "d", "n", "=", "x">>

RowShapes ==
    { Row(FALSE, RowMagnet(Hash40("a")), <<10, 1>>),
      Row(TRUE, <<>>, <<10, 1>>),
      Row(TRUE, RowMagnet(Hash40("a")), <<10, 1>>),
      Row(TRUE, RowMagnet(Hash40("B")), <<60, 5>>),
      Row(TRUE, RowMagnet(Hash32("c")), <<10>>),
      Row(TRUE, RowMagnet(Hash40("d")), <<>>) }

MirrorFailures == {"connection_error", "timeout", "http_error"}

\* what a mirror can answer: a transport failure, a non-2xx status, a page
\* without the searchResult table, or a page with rows
MirrorResponses ==
    {[kind |-> k, rows |-> <<>>] : k \in MirrorFailures \cup {"no_table"}}
    \cup {[kind |-> "page", rows |-> r] : r \in SeqsUpTo(RowShapes, MaxRows)}

\* TorrentProvider._extract_hash
ProviderExtractHash(magnet) == HashPatternSearch(magnet, UrnLiteral).group

\* TPBProvider._parse_tpb_row of row number r: <<>> for None, else <<result>>;
\* the name stands for "{title of row r} [TPB]"
ParseTPBRow(row, r) ==
    IF ~row.has_name \/ row.magnet = <<>> THEN <<>>
    ELSE <<TorrentResult(<<r, 0>>,
                         Num(IF Len(row.cells) >= 1 THEN row.cells[1] ELSE 0),
                         Num(IF Len(row.cells) >= 2 THEN row.cells[2] ELSE 0),
                         "TPB",
                         ProviderExtractHash(row.magnet))>>

\* TPBProvider._parse_tpb_html
ParseTPBHtml(resp) ==
    IF resp.kind = "no_table" THEN <<>>
    ELSE LET rows == Take(resp.rows, MAX_TORRENT_RESULTS)
         IN  Flatten([r \in 1..Len(rows) |-> ParseTPBRow(rows[r], r)])

\* TPBProvider._search_mirror: [raised, results]
SearchMirror(resp) ==
    IF resp.kind \in MirrorFailures
    THEN [raised |-> TRUE, results |-> <<>>]
    ELSE [raised |-> FALSE, results |-> ParseTPBHtml(resp)]

\* _search_mirror tabulated over the mirror answers
MirrorTable == [resp \in MirrorResponses |-> SearchMirror(resp)]

---------------------------------------------------------------------------
(* TorrentSearcher: provider registry, priority table, ranking.                *)

\* the slots of a dictionary's smallest table, which the dictionary of
\* lines 381-384 has
PyDict_MINSIZE == 8

\* the entries a table of n slots can take: two thirds of them
UsableFraction(n) == (2 * n) \div 3

\* the number of binary digits of n
RECURSIVE BitLength(_)
BitLength(n) == IF n = 0 THEN 0 ELSE 1 + BitLength(n \div 2)

\* the slots of the table a dictionary of `used` keys is rebuilt with when an
\* insertion finds its table full: 2 to the bit length of
\* ((3 * used | 8) - 1) | 7
ResizedSlots(used) ==
    LET minsize == 3 * used
        or8 == IF (minsize \div 8) % 2 = 1 THEN minsize ELSE minsize + 8
        or7 == ((or8 - 1) \div 8) * 8 + 7
    IN  2 ^ BitLength(or7)

\* the entries a new dictionary's table can take
DictUsable == UsableFraction(PyDict_MINSIZE)

DefaultProviders == [n \in {"yts", "tpb"} |->
                        IF n = "yts" THEN "YTSProvider" ELSE "TPBProvider"]

\* (mutant) the movie try-order used for every media type
ProviderPrioritySame(media_type) == <<"yts", "tpb">>

\* self.provider_priority.get(query.media_type, ['tpb'])
ProviderPriority(media_type) ==
    IF media_type = "movie" THEN <<"yts", "tpb">> ELSE <<"tpb">>

MediaTypeValues == {"movie", "tv"}

\* the media_type strings a caller may pass
MediaTypeInputs == MediaTypeValues \cup {"music"}

\* the sort key (health_score, seeders) of a: strictly greater than that of b
KeyGreater(a, b) ==
    \/ health_score(a) > health_score(b)
    \/ /\ health_score(a) = health_score(b)
       /\ a.seeders.val > b.seeders.val

\* (mutant) x put in front of the elements of equal key: the order a reversed
\* ascending sort gives
InsertRankedBeforeEqual(sorted, x) ==
    LET k == Cardinality({i \in 1..Len(sorted) : KeyGreater(sorted[i], x)})
    IN  SubSeq(sorted, 1, k) \o <<x>> \o SubSeq(sorted, k + 1, Len(sorted))

\* x put behind the last element whose key is not smaller than x's
InsertRanked(sorted, x) ==
    LET k == Cardinality({i \in 1..Len(sorted) : ~KeyGreater(x, sorted[i])})
    IN  SubSeq(sorted, 1, k) \o <<x>> \o SubSeq(sorted, k + 1, Len(sorted))

\* list.sort(key=lambda x: (x.health_score, x.seeders), reverse=True):
\* descending, elements of equal key in their original order
RECURSIVE SortRanked(_)
SortRanked(s) ==
    IF s = <<>> THEN <<>>
    ELSE InsertRanked(SortRanked(SubSeq(s, 1, Len(s) - 1)), s[Len(s)])

\* (mutant) the slice left out
TruncateMissing(s) == s

\* all_results[:MAX_TORRENT_RESULTS]
Truncate(s) == Take(s, MAX_TORRENT_RESULTS)

\* TorrentSearcher._torrent_to_dict (the fields the ranking and the providers
\* decide; magnet, size, quality are copied text and ratio a rounded quotient)
TorrentToDict(t) ==
    [name |-> t.name, seeders |-> t.seeders.val, leechers |-> t.leechers.val,
     source |-> t.source, hash |-> t.hash, health_score |-> health_score(t)]

\* lines 441-445: [raised, sorted, output]
RankAndConvert(results) ==
    IF \E i \in 1..Len(results) : HealthScoreRaises(results[i])
    THEN [raised |-> TRUE, sorted |-> results, output |-> <<>>]
    ELSE LET sorted == SortRanked(results)
             top == Truncate(sorted)
         IN  IF \E i \in 1..Len(top) : RatioRaises(top[i])
             THEN [raised |-> TRUE, sorted |-> sorted, output |-> <<>>]
             ELSE [raised |-> FALSE, sorted |-> sorted,
                   output |-> [i \in 1..Len(top) |-> TorrentToDict(top[i])]]

NoQuery == [media_type |-> "none"]

\* one entry of the log: a provider's search is entered ("search"), it hands
\* its outcome to the aggregator ("result": nonempty, empty or raised), an HTTP
\* GET is sent ("get"; for a TPB mirror with what _search_mirror made of the
\* answer), the YTS API answers ("answer", with the kind of answer it is), or
\* time.sleep is called ("sleep")
Event(kind, what, detail) == <<kind, what, detail>>

ResultKind(r) ==
    IF r.raised THEN "raised" ELSE IF r.results # <<>> THEN "nonempty" ELSE "empty"

CurrentName == ProviderPriority(query.media_type)[idx]

AtProvider(class) ==
    /\ pc = "loop"
    /\ idx <= Len(ProviderPriority(query.media_type))
    /\ CurrentName \in DOMAIN providers
    /\ providers[CurrentName] = class

\* (mutant) no break after YTS results
AfterProviderSearchNoBreak(r, name) ==
    /\ all_results' = (IF r.raised THEN all_results ELSE all_results \o r.results)
    /\ idx' = idx + 1
    /\ pc' = "loop"

\* (mutant) a provider error ends the loop instead of continuing it
AfterProviderSearchAbort(r, name) ==
    IF r.raised
    THEN /\ all_results' = all_results
         /\ idx' = idx
         /\ pc' = "rank"
    ELSE /\ all_results' = all_results \o r.results
         /\ IF query.media_type = "movie" /\ name = "yts" /\ r.results # <<>>
            THEN pc' = "rank" /\ idx' = idx
            ELSE pc' = "loop" /\ idx' = idx + 1

\* (mutant) the break of line 435 tests for the other provider
AfterProviderSearchBreakAtTPB(r, name) ==
    IF r.raised
    THEN /\ all_results' = all_results
         /\ idx' = idx + 1
         /\ pc' = "loop"
    ELSE /\ all_results' = all_results \o r.results
         /\ IF query.media_type = "movie" /\ name = "tpb" /\ r.results # <<>>
            THEN pc' = "rank" /\ idx' = idx
            ELSE pc' = "loop" /\ idx' = idx + 1

\* (mutant) a provider that raised is searched once more
AfterProviderSearchRetry(r, name) ==
    IF r.raised
    THEN /\ all_results' = all_results
         /\ idx' = (IF \E i \in 1..Len(log) : log[i][1] = "result" /\ log[i][3] = "raised"
                    THEN idx + 1 ELSE idx)
         /\ pc' = "loop"
    ELSE /\ all_results' = all_results \o r.results
         /\ IF query.media_type = "movie" /\ name = "yts" /\ r.results # <<>>
            THEN pc' = "rank" /\ idx' = idx
            ELSE pc' = "loop" /\ idx' = idx + 1

\* the aggregator's handling of one provider.search outcome (lines 429-439)
AfterProviderSearch(r, name) ==
    IF r.raised
    THEN /\ all_results' = all_results
         /\ idx' = idx + 1
         /\ pc' = "loop"
    ELSE /\ all_results' = all_results \o r.results
         /\ IF query.media_type = "movie" /\ name = "yts" /\ r.results # <<>>
            THEN pc' = "rank" /\ idx' = idx
            ELSE pc' = "loop" /\ idx' = idx + 1

---------------------------------------------------------------------------
(* Actions of a search_torrents call *)

SearchInit ==
    /\ providers = DefaultProviders
    /\ provider_order = <<"yts", "tpb">>
    /\ provider_usable = DictUsable - 2
    /\ registry_ops = 0
    /\ working_mirror = 0
    /\ pc = "idle"
    /\ query = NoQuery
    /\ idx = 1
    /\ mirror = 1
    /\ all_results = <<>>
    /\ log = <<>>
    /\ outcome = "none"
    /\ output = <<>>

\* (mutant) a string that names no member is carried into the provider loop
SearchBeginUnchecked ==
    /\ pc \in {"idle", "done"}
    /\ \E media_type \in MediaTypeInputs : query' = [media_type |-> media_type]
    /\ pc' = "loop"
    /\ outcome' = "none"
    /\ idx' = 1
    /\ mirror' = 1
    /\ all_results' = <<>>
    /\ log' = <<>>
    /\ output' = <<>>
    /\ UNCHANGED <<providers, provider_order, provider_usable, registry_ops,
                   working_mirror>>
    /\ UNCHANGED <<playVars, funVars, concVars, statusVars>>

\* search_torrents, lines 409-421: the query is built, MediaType(media_type)
\* raises ValueError on a string that names no member
SearchBegin ==
    /\ pc \in {"idle", "done"}
    /\ \E media_type \in MediaTypeInputs :
        /\ query' = [media_type |-> media_type]
        /\ IF media_type \in MediaTypeValues
           THEN /\ pc' = "loop"
                /\ outcome' = "none"
           ELSE /\ pc' = "done"
                /\ outcome' = "raised"
    /\ idx' = 1
    /\ mirror' = 1
    /\ all_results' = <<>>
    /\ log' = <<>>
    /\ output' = <<>>
    /\ UNCHANGED <<providers, provider_order, provider_usable, registry_ops,
                   working_mirror>>
    /\ UNCHANGED <<playVars, funVars, concVars, statusVars>>

\* (mutant) an identifier that is not registered is looked up with
\* self.providers[provider_name] and ends the call with KeyError
NextProviderStrict ==
    /\ pc = "loop"
    /\ idx <= Len(ProviderPriority(query.media_type))
           => CurrentName \notin DOMAIN providers
    /\ IF idx > Len(ProviderPriority(query.media_type))
       THEN pc' = "rank" /\ outcome' = outcome
       ELSE pc' = "done" /\ outcome' = "raised"
    /\ UNCHANGED <<providers, provider_order, provider_usable, registry_ops,
                   working_mirror, query, idx, mirror, all_results, log,
                   output>>
    /\ UNCHANGED <<playVars, funVars, concVars, statusVars>>

\* the for statement of line 423: the loop ends, or the identifier is not
\* registered and the iteration is skipped (lines 424-426)
NextProvider ==
    /\ pc = "loop"
    /\ idx <= Len(ProviderPriority(query.media_type))
           => CurrentName \notin DOMAIN providers
    /\ IF idx > Len(ProviderPriority(query.media_type))
       THEN pc' = "rank" /\ idx' = idx
       ELSE pc' = "loop" /\ idx' = idx + 1
    /\ UNCHANGED <<providers, provider_order, provider_usable, registry_ops,
                   working_mirror, query, mirror, all_results, log, outcome,
                   output>>
    /\ UNCHANGED <<playVars, funVars, concVars, statusVars>>

\* provider.search(query) on a YTSProvider is entered (lines 424-428) and,
\* for a movie query, sends its request (line 182) and waits for the answer
YTSSearchBegin ==
    /\ AtProvider("YTSProvider")
    /\ pc' = "yts"
    /\ log' = log \o <<Event("search", "YTS", "")>>
                  \o (IF query.media_type = "movie"
                      THEN <<Event("get", "https://yts.mx", "")>>
                      ELSE <<>>)
    /\ UNCHANGED <<providers, provider_order, provider_usable, registry_ops,
                   working_mirror, query, idx, mirror, all_results, outcome,
                   output>>
    /\ UNCHANGED <<playVars, funVars, concVars, statusVars>>

\* the search of the YTSProvider comes to its end, for the answers the API may
\* give, and the aggregator handles what it returns or raises; the provider
\* is the one that was looked up, whatever the registry holds by then
YTSSearchEndOn(responses) ==
    /\ pc = "yts"
    /\ \E resp \in responses :
        LET r == YTSProviderSearch(query, resp)
        IN  /\ log' = log \o (IF r.requested
                              THEN <<Event("answer", "YTS", YTSAnswerClass(resp))>>
                              ELSE <<>>)
                          \o <<Event("result", "YTS", ResultKind(r))>>
            /\ AfterProviderSearch(r, CurrentName)
    /\ UNCHANGED <<providers, provider_order, provider_usable, registry_ops,
                   working_mirror, query, mirror, outcome, output>>
    /\ UNCHANGED <<playVars, funVars, concVars, statusVars>>

YTSSearchEnd == YTSSearchEndOn(YTSResponses)

\* (mutant) the loop over the mirrors starts at the mirror that worked last
TPBSearchBeginAtWorking ==
    /\ AtProvider("TPBProvider")
    /\ pc' = "tpb"
    /\ mirror' = (IF working_mirror # 0 THEN working_mirror ELSE 1)
    /\ log' = log \o <<Event("search", "TPB", "")>>
    /\ UNCHANGED <<providers, provider_order, provider_usable, registry_ops,
                   working_mirror, query, idx, all_results, outcome, output>>
    /\ UNCHANGED <<playVars, funVars, concVars, statusVars>>

\* provider.search(query) on a TPBProvider is entered
TPBSearchBegin ==
    /\ AtProvider("TPBProvider")
    /\ pc' = "tpb"
    /\ mirror' = 1
    /\ log' = log \o <<Event("search", "TPB", "")>>
    /\ UNCHANGED <<providers, provider_order, provider_usable, registry_ops,
                   working_mirror, query, idx, all_results, outcome, output>>
    /\ UNCHANGED <<playVars, funVars, concVars, statusVars>>

\* one iteration of TPBProvider.search's loop over the mirrors (lines 259-273),
\* for the answers a mirror may give
TPBTryMirrorOn(responses) ==
    /\ pc = "tpb"
    /\ mirror <= Len(Mirrors)
    /\ \E resp \in responses :
        LET r == MirrorTable[resp]
        IN  IF r.raised
            THEN /\ log' = log \o <<Event("get", Mirrors[mirror], "raised")>>
                 /\ mirror' = mirror + 1
                 /\ UNCHANGED <<working_mirror, pc, idx, all_results>>
            ELSE IF r.results # <<>>
            THEN /\ log' = log \o <<Event("get", Mirrors[mirror], "nonempty"),
                                     Event("result", "TPB", "nonempty")>>
                 /\ working_mirror' = mirror
                 /\ mirror' = mirror
                 /\ AfterProviderSearch(r, CurrentName)
            ELSE /\ log' = log \o <<Event("get", Mirrors[mirror], "empty"),
                                     Event("sleep", "0.3", "")>>
                 /\ mirror' = mirror + 1
                 /\ UNCHANGED <<working_mirror, pc, idx, all_results>>
    /\ UNCHANGED <<providers, provider_order, provider_usable, registry_ops,
                   query, outcome, output>>
    /\ UNCHANGED <<playVars, funVars, concVars, statusVars>>

TPBTryMirror == TPBTryMirrorOn(MirrorResponses)

\* TPBProvider.search ran out of mirrors and returns [] (lines 275-276)
TPBAllMirrorsFailed ==
    /\ pc = "tpb"
    /\ mirror > Len(Mirrors)
    /\ AfterProviderSearch([raised |-> FALSE, results |-> <<>>], CurrentName)
    /\ log' = log \o <<Event("result", "TPB", "empty")>>
    /\ UNCHANGED <<providers, provider_order, provider_usable, registry_ops,
                   working_mirror, query, mirror, outcome, output>>
    /\ UNCHANGED <<playVars, funVars, concVars, statusVars>>

\* lines 441-445: sort in place, truncate, convert, return
Rank ==
    /\ pc = "rank"
    /\ LET r == RankAndConvert(all_results)
       IN  /\ all_results' = r.sorted
           /\ output' = r.output
           /\ outcome' = IF r.raised THEN "raised" ELSE "returned"
    /\ pc' = "done"
    /\ UNCHANGED <<providers, provider_order, provider_usable, registry_ops,
                   working_mirror, query, idx, mirror, log>>
    /\ UNCHANGED <<playVars, funVars, concVars, statusVars>>

---------------------------------------------------------------------------
(* TorrentManager (app.py): hash extraction *)

BASE_URL == "http://127.0.0.1:8090"

STREAM_PATH == "/stream"

Base32Alphabet == <<"A", "B", "C", "D", "E", "F", "G", "H", "I", "J", "K", "L", "M",
                    "N", "O", "P", "Q", "R", "S", "T", "U", "V", "W", "X", "Y", "Z",
                    "2", "3", "4", "5", "6", "7">>

HexDigits == <<"0", "1", "2", "3", "4", "5", "6", "7", "8", "9",
               "a", "b", "c", "d", "e", "f">>

IsBase32Char(c) == \E i \in 1..Len(Base32Alphabet) : Base32Alphabet[i] = c

Base32Value(c) == (CHOOSE i \in 1..Len(Base32Alphabet) : Base32Alphabet[i] = c) - 1

\* the five bits of a base32 digit, most significant first
FiveBits(v) == <<(v \div 16) % 2, (v \div 8) % 2, (v \div 4) % 2, (v \div 2) % 2, v % 2>>

\* bytes.hex() of the bytes held in a bit sequence
HexOfBits(bits, nbytes) ==
    [k \in 1..(2 * nbytes) |->
        HexDigits[1 + 8 * bits[4 * k - 3] + 4 * bits[4 * k - 2]
                    + 2 * bits[4 * k - 1] + bits[4 * k]]]

\* base64.b32decode(digits + '=' * padchars).hex(), digits holding no '=':
\* the length must be a multiple of 8, every digit in A-Z2-7 (upper case only),
\* and the number of pad characters one of 0, 1, 3, 4, 6
B32DecodeHex(digits, padchars) ==
    IF \/ (Len(digits) + padchars) % 8 # 0
       \/ \E i \in 1..Len(digits) : ~IsBase32Char(digits[i])
       \/ padchars \notin {0, 1, 3, 4, 6}
    THEN [ok |-> FALSE, hex |-> <<>>]
    ELSE [ok |-> TRUE,
          hex |-> HexOfBits(Flatten([i \in 1..Len(digits) |->
                                        FiveBits(Base32Value(digits[i]))]),
                            (5 * Len(digits)) \div 8)]

\* binascii.hexlify(binascii.unhexlify(s)): an even number of hex digits,
\* given back in lower case
HexRoundTrip(s) ==
    IF Len(s) % 2 # 0 \/ \E i \in 1..Len(s) : s[i] \notin HexChars
    THEN [ok |-> FALSE, hex |-> <<>>]
    ELSE [ok |-> TRUE, hex |-> Lower(s)]

\* TorrentManager._convert_hash_format
ConvertHashFormat(h) ==
    LET decoded == B32DecodeHex(h, 8 - (Len(h) % 8))
    IN  IF decoded.ok THEN decoded.hex
        ELSE IF HexRoundTrip(h).ok THEN HexRoundTrip(h).hex
        ELSE h

\* (mutant) the matched hash given back in lower case
ExtractHashLowered(magnet) ==
    LET m == HashPatternSearch(magnet, XtLiteral)
    IN  IF ~m.matched THEN [found |-> FALSE, hash |-> <<>>]
        ELSE [found |-> TRUE, hash |-> Lower(m.group)]

\* TorrentManager._extract_hash: [found, hash]; found is FALSE for None
ExtractHash(magnet) ==
    LET m == HashPatternSearch(magnet, XtLiteral)
    IN  IF ~m.matched THEN [found |-> FALSE, hash |-> <<>>]
        ELSE IF Len(m.group) = 32
        THEN [found |-> TRUE, hash |-> ConvertHashFormat(m.group)]
        ELSE [found |-> TRUE, hash |-> m.group]

---------------------------------------------------------------------------
(* TorrentManager: the two requests to TorrServer *)

\* str(n) of a non-negative integer
RECURSIVE Decimal(_)
Decimal(n) ==
    IF n < 10 THEN <<HexDigits[n + 1]>>
    ELSE Decimal(n \div 10) \o <<HexDigits[(n % 10) + 1]>>

\* f"{self.base_url}{self.stream_path}?link={hash_string}&index=1&play"
StreamUrl(h) == <<BASE_URL, STREAM_PATH, "?link=">> \o h \o <<"&index=1&play">>

Success(h, message) ==
    [success |-> TRUE, stream_url |-> StreamUrl(h), hash |-> h, message |-> message]

Failure(error) == [success |-> FALSE, error |-> error]

NoResult == [none |-> TRUE]

DeadBeef == Repeat(<<"d", "e", "a", "d", "b", "e", "e", "f">>, 5)

DeadBeefUpper == Repeat(<<"D", "E", "A", "D", "B", "E", "E", "F">>, 5)

Base32Like == Repeat(<<"A", "B", "C", "D", "2", "3", "4", "5">>, 4)

\* base32 of twenty bytes, with digits outside the hexadecimal characters
Base32Hash == Repeat(<<"M", "F", "R", "G", "G", "Z", "D", "F">>, 4)

MixedCaseHash == Repeat(<<"D", "e", "a", "d", "B", "e", "e", "F">>, 5)

NotAMagnet == <<"n", "o", "t", "-", "a", "-", "m", "a", "g", "n", "e", "t">>

DisplayName == <<"&", "d", "n", "=", "x">>

\* the strings a caller may pass to add_torrent
MagnetInputs ==
    { NotAMagnet,
      <<"x">> \o XtLiteral \o DeadBeef,
      MagnetScheme \o <<"?", "d", "n", "=", "x">>,
      XtLiteral \o Repeat(<<"g">>, 40),
      XtLiteral \o Repeat(<<"a">>, 31),
      XtLiteral \o DeadBeef,
      XtLiteral \o DeadBeefUpper \o DisplayName,
      XtLiteral \o Repeat(<<"a">>, 40),
      XtLiteral \o Base32Like \o DisplayName,
      XtLiteral \o Repeat(<<"A">>, 39),
      XtLiteral \o MixedCaseHash \o DisplayName,
      XtLiteral \o Base32Hash,
      MagnetScheme \o XtLiteral \o DeadBeef }

\* _extract_hash tabulated over the inputs
ExtractTable == [m \in MagnetInputs |-> ExtractHash(m)]

\* one entry of the array GET /torrents answers: its "hash" is a string, is
\* null, or is missing
Entry(kind, text) == [kind |-> kind, text |-> text]

EntryShapes ==
    { Entry("str", DeadBeef),
      Entry("str", DeadBeefUpper),
      Entry("str", Repeat(<<"b">>, 40)),
      Entry("str", Lower(Base32Like)),
      Entry("str", B32DecodeHex(Base32Like, 0).hex),
      Entry("missing", <<>>),
      Entry("null", <<>>) }

RequestFailures == {"timeout", "connect_timeout", "connection_error", "other_request_error"}

Response(kind, status, body, entries) ==
    [kind |-> kind, status |-> status, body |-> body, entries |-> entries]

\* what GET /torrents can do: fail in transport, answer a non-200 status, or
\* answer 200 with a body that is no JSON, a JSON object with members (the
\* loop then iterates over its keys), or a JSON array
GetBehaviours ==
    {Response(k, 0, "none", <<>>) : k \in RequestFailures}
    \cup {Response("response", st, "array", <<>>) : st \in {404, 500}}
    \cup {Response("response", 200, b, <<>>) : b \in {"not_json", "object"}}
    \cup {Response("response", 200, "array", es) : es \in SeqsUpTo(EntryShapes, MaxTorrents)}

BodyTexts == {<<>>, <<"torrent rejected">>}

\* what POST /torrents can do: fail in transport, or answer a status and a text
PostBehaviours ==
    {[kind |-> k, status |-> 0, text |-> <<>>] : k \in RequestFailures}
    \cup {[kind |-> "response", status |-> st, text |-> t] :
             st \in {200, 400, 500}, t \in BodyTexts}

\* line 89: torrent.get('hash', '').lower() == hash_string.lower()
HashMatches(stored, h) == Lower(stored) = Lower(h)

\* the first entry of the array at which the loop of lines 88-96 stops: it
\* matches, or reading its hash raises AttributeError; 0 when the loop runs out
FirstStop(entries, h) ==
    LET stops == {i \in 1..Len(entries) :
                    \/ entries[i].kind = "null"
                    \/ HashMatches(entries[i].text, h)}
    IN  IF stops = {} THEN 0 ELSE CHOOSE i \in stops : \A j \in stops : i <= j

\* (mutant) a failed request or a non-200 status is raised to the caller
CheckExistingTorrentStrict(h, g, json_is_request_error) ==
    IF g.kind \in RequestFailures \/ g.status # 200
    THEN [raised |-> TRUE, existing |-> FALSE, result |-> NoResult]
    ELSE [raised |-> FALSE, existing |-> FALSE, result |-> NoResult]

\* TorrentManager._check_existing_torrent: [raised, existing, result];
\* json_is_request_error tells whether the installed requests raises its own
\* JSONDecodeError (a RequestException) on a body that is no JSON
CheckExistingTorrent(h, g, json_is_request_error) ==
    LET none == [raised |-> FALSE, existing |-> FALSE, result |-> NoResult]
        raise == [raised |-> TRUE, existing |-> FALSE, result |-> NoResult]
    IN  IF g.kind \in RequestFailures THEN none
        ELSE IF g.status # 200 THEN none
        ELSE IF g.body = "not_json"
        THEN (IF json_is_request_error THEN none ELSE raise)
        ELSE IF g.body = "object" THEN raise
        ELSE LET i == FirstStop(g.entries, h)
             IN  IF i = 0 THEN none
                 ELSE IF g.entries[i].kind = "null" THEN raise
                 ELSE [raised |-> FALSE, existing |-> TRUE,
                       result |-> Success(h, "Torrent already exists, stream is ready")]

\* (mutant) every status below 500 taken for success
AddNewTorrentLenient(h, p) ==
    IF p.kind \in RequestFailures
    THEN Failure(<<"TorrServer timeout - try again">>)
    ELSE IF p.status < 500
    THEN Success(h, "Torrent successfully added")
    ELSE Failure(<<"TorrServer error (">> \o Decimal(p.status) \o <<"): ">> \o p.text)

\* TorrentManager._add_new_torrent
AddNewTorrent(h, p) ==
    IF p.kind \in {"timeout", "connect_timeout"}
    THEN Failure(<<"TorrServer timeout - try again">>)
    ELSE IF p.kind = "connection_error"
    THEN Failure(<<"Cannot connect to TorrServer (", BASE_URL, ")">>)
    ELSE IF p.kind = "other_request_error"
    THEN Failure(<<"Unexpected error: ", "request failed">>)
    ELSE IF p.status = 200
    THEN Success(h, "Torrent successfully added")
    ELSE Failure(<<"TorrServer error (">> \o Decimal(p.status) \o <<"): ">> \o p.text)

\* one request sent to TorrServer, with what came back
Request(method, path, link, answer) ==
    [method |-> method, path |-> path, link |-> link, answer |-> answer]

---------------------------------------------------------------------------
(* Actions of an add_torrent call *)

PlayInit ==
    /\ play_pc = "idle"
    /\ magnet_link = <<>>
    /\ hash_string = <<>>
    /\ http = <<>>
    /\ play_outcome = "none"
    /\ result = NoResult

\* (mutant) the startswith check left out
ValidateMagnetNoScheme(m) ==
    IF ~ExtractTable[m].found \/ ExtractTable[m].hash = <<>>
    THEN [ok |-> FALSE, hash |-> <<>>,
          result |-> Failure(<<"Cannot extract hash from magnet link">>)]
    ELSE [ok |-> TRUE, hash |-> ExtractTable[m].hash, result |-> NoResult]

\* (mutant) the pattern anchored at the start and 40 characters only
ValidateMagnetAnchored(m) ==
    IF ~StartsWith(m, MagnetScheme)
    THEN [ok |-> FALSE, hash |-> <<>>, result |-> Failure(<<"Invalid magnet link">>)]
    ELSE IF ~(HashPatternAt(m, XtLiteral, 1) /\ HexRun(m, Len(XtLiteral) + 1) >= 40)
    THEN [ok |-> FALSE, hash |-> <<>>,
          result |-> Failure(<<"Cannot extract hash from magnet link">>)]
    ELSE [ok |-> TRUE, hash |-> ExtractTable[m].hash, result |-> NoResult]

\* add_torrent, lines 38-43: [ok, hash, result]
ValidateMagnet(m) ==
    IF ~StartsWith(m, MagnetScheme)
    THEN [ok |-> FALSE, hash |-> <<>>, result |-> Failure(<<"Invalid magnet link">>)]
    ELSE IF ~ExtractTable[m].found \/ ExtractTable[m].hash = <<>>
    THEN [ok |-> FALSE, hash |-> <<>>,
          result |-> Failure(<<"Cannot extract hash from magnet link">>)]
    ELSE [ok |-> TRUE, hash |-> ExtractTable[m].hash, result |-> NoResult]

\* add_torrent, lines 38-43: the two checks that need no request
AddTorrentBegin ==
    /\ play_pc \in {"idle", "done"}
    /\ \E m \in MagnetInputs :
        LET v == ValidateMagnet(m)
        IN  /\ magnet_link' = m
            /\ hash_string' = v.hash
            /\ result' = v.result
            /\ play_outcome' = (IF v.ok THEN "none" ELSE "returned")
            /\ play_pc' = (IF v.ok THEN "check" ELSE "done")
    /\ http' = <<>>
    /\ UNCHANGED <<searchVars, funVars, concVars, statusVars>>

\* add_torrent, lines 46-48: GET /torrents and the search for the hash
CheckExisting ==
    /\ play_pc = "check"
    /\ \E g \in GetBehaviours, json_is_request_error \in BOOLEAN :
        LET c == CheckExistingTorrent(hash_string, g, json_is_request_error)
        IN  /\ http' = http \o <<Request("GET", "/torrents", <<>>, g)>>
            /\ IF c.raised
               THEN /\ play_outcome' = "raised"
                    /\ play_pc' = "done"
                    /\ result' = NoResult
               ELSE IF c.existing
               THEN /\ play_outcome' = "returned"
                    /\ play_pc' = "done"
                    /\ result' = c.result
               ELSE /\ play_outcome' = "none"
                    /\ play_pc' = "add"
                    /\ result' = NoResult
    /\ UNCHANGED <<magnet_link, hash_string>>
    /\ UNCHANGED <<searchVars, funVars, concVars, statusVars>>

\* add_torrent, line 51: POST /torrents
AddNew ==
    /\ play_pc = "add"
    /\ \E p \in PostBehaviours :
        /\ http' = http \o <<Request("POST", "/torrents", magnet_link, p)>>
        /\ result' = AddNewTorrent(hash_string, p)
    /\ play_outcome' = "returned"
    /\ play_pc' = "done"
    /\ UNCHANGED <<magnet_link, hash_string>>
    /\ UNCHANGED <<searchVars, funVars, concVars, statusVars>>

---------------------------------------------------------------------------
(* Derived properties evaluated on their own: TorrentResult.health_score and   *)
(* SearchQuery.formatted_query                                                 *)

NoCall == [fn |-> "none"]

FunInit ==
    /\ fn_call = NoCall
    /\ fn_ret = <<>>

SeederCounts == (-1)..MaxSeeders

LeecherCounts == 0..MaxLeechers

\* TorrentResult(seeders=s, leechers=l, ...).health_score
HealthScoreCall ==
    /\ \E s \in SeederCounts, l \in LeecherCounts :
        /\ fn_call' = [fn |-> "health_score", seeders |-> s, leechers |-> l]
        /\ fn_ret' = health_score(TorrentResult(<<0, 0>>, Num(s), Num(l), "TPB", <<>>))
    /\ UNCHANGED <<searchVars, playVars, concVars, statusVars>>

\* bool(v) of an Optional[int]
Truthy(v) == IsNum(v) /\ v.val # 0

\* format(n, "02d") of a non-negative integer
TwoDigits(n) == IF n < 10 THEN <<"0">> \o Decimal(n) ELSE Decimal(n)

\* (mutant) the episode token built whenever an episode is given
FormattedQuerySeasonless(q) ==
    <<q.title>>
    \o (IF q.year # "" THEN <<" ", q.year>> ELSE <<>>)
    \o (IF Truthy(q.episode)
        THEN <<" ", "S">> \o TwoDigits(IF Truthy(q.season) THEN q.season.val ELSE 0)
                 \o <<"E">> \o TwoDigits(q.episode.val)
        ELSE IF Truthy(q.season)
        THEN <<" ", "Season ">> \o Decimal(q.season.val)
        ELSE <<>>)

\* SearchQuery.formatted_query: " ".join(query_parts)
FormattedQuery(q) ==
    <<q.title>>
    \o (IF q.year # "" THEN <<" ", q.year>> ELSE <<>>)
    \o (IF Truthy(q.season) /\ Truthy(q.episode)
        THEN <<" ", "S">> \o TwoDigits(q.season.val) \o <<"E">> \o TwoDigits(q.episode.val)
        ELSE IF Truthy(q.season)
        THEN <<" ", "Season ">> \o Decimal(q.season.val)
        ELSE <<>>)

Titles == {"Show", "Some Film"}

Years == {"", "2020"}

\* season and episode of a SearchQuery: None or a non-negative integer
SeasonInputs == {Null} \cup {Num(n) : n \in 0..MaxSeason}

\* SearchQuery(title, year, season=..., episode=...).formatted_query
FormattedQueryCall ==
    /\ \E t \in Titles, y \in Years, se \in SeasonInputs, ep \in SeasonInputs :
        LET q == [title |-> t, year |-> y, season |-> se, episode |-> ep]
        IN  /\ fn_call' = [fn |-> "formatted_query", query |-> q]
            /\ fn_ret' = FormattedQuery(q)
    /\ UNCHANGED <<searchVars, playVars, concVars, statusVars>>

---------------------------------------------------------------------------
(* TorrentProvider._extract_quality *)

\* quality_map, in the order of its items
QualityMap ==
    << <<<<"2", "1", "6", "0", "p">>, "4K">>,
       <<<<"4", "k">>, "4K">>,
       <<<<"1", "0", "8", "0", "p">>, "1080p">>,
       <<<<"7", "2", "0", "p">>, "720p">>,
       <<<<"4", "8", "0", "p">>, "SD">>,
       <<<<"d", "v", "d", "r", "i", "p">>, "SD">>,
       <<<<"w", "e", "b", "r", "i", "p">>, "WEB">>,
       <<<<"w", "e", "b", "d", "l">>, "WEB-DL">>,
       <<<<"b", "l", "u", "r", "a", "y">>, "BluRay">>,
       <<<<"h", "d", "t", "v">>, "HDTV">> >>

\* (mutant) the last pattern of the table that occurs decides
RECURSIVE QualityFromLast(_, _)
QualityFromLast(name_lower, k) ==
    IF k > Len(QualityMap) THEN "Unknown"
    ELSE LET later == QualityFromLast(name_lower, k + 1)
         IN  IF later # "Unknown" THEN later
             ELSE IF Contains(name_lower, QualityMap[k][1]) THEN QualityMap[k][2]
             ELSE "Unknown"

\* the loop over quality_map.items() from item k on
RECURSIVE QualityFrom(_, _)
QualityFrom(name_lower, k) ==
    IF k > Len(QualityMap) THEN "Unknown"
    ELSE IF Contains(name_lower, QualityMap[k][1]) THEN QualityMap[k][2]
    ELSE QualityFrom(name_lower, k + 1)

ExtractQuality(name) == QualityFrom(Lower(name), 1)

\* the tokens a torrent name is made of behind its title, each with its dot
NameTokens ==
    { <<".", "2", "1", "6", "0", "p">>,
      <<".", "4", "K">>,
      <<".", "1", "0", "8", "0", "p">>,
      <<".", "7", "2", "0", "p">>,
      <<".", "4", "8", "0", "p">>,
      <<".", "D", "V", "D", "R", "i", "p">>,
      <<".", "W", "E", "B", "R", "i", "p">>,
      <<".", "W", "E", "B", "D", "L">>,
      <<".", "W", "E", "B", "-", "D", "L">>,
      <<".", "B", "l", "u", "R", "a", "y">>,
      <<".", "H", "D", "T", "V">>,
      <<".", "x", "2", "6", "4">> }

\* torrent names: "Movie.Title" followed by up to MaxTags tokens
TorrentNames ==
    {<<"M", "o", "v", "i", "e", ".", "T", "i", "t", "l", "e">> \o Flatten(tags) :
        tags \in SeqsUpTo(NameTokens, MaxTags)}

\* _extract_quality tabulated over the names
QualityTable == [n \in TorrentNames |-> ExtractQuality(n)]

\* provider._extract_quality(name)
ExtractQualityCall ==
    /\ \E n \in TorrentNames :
        /\ fn_call' = [fn |-> "_extract_quality", name |-> n]
        /\ fn_ret' = QualityTable[n]
    /\ UNCHANGED <<searchVars, playVars, concVars, statusVars>>

---------------------------------------------------------------------------
(* Concurrent add_torrent calls on the one torrent_manager (app.py line 229),  *)
(* served by different threads, against a reachable TorrServer that answers    *)
(* GET /torrents with the hashes it holds and POST /torrents by adding one.     *)

Callers == {1, 2}

IdleCaller == [pc |-> "idle", magnet |-> <<>>, hash |-> <<>>, result |-> NoResult]

ConcInit ==
    /\ callers = [c \in Callers |-> IdleCaller]
    /\ daemon_torrents = <<>>
    /\ daemon_posts = <<>>

\* the magnets the concurrent callers submit: one torrent written in two ways,
\* and another torrent
ConcMagnets ==
    { XtLiteral \o DeadBeef,
      XtLiteral \o DeadBeefUpper \o DisplayName,
      XtLiteral \o Repeat(<<"a">>, 40) }

\* TorrServer's answer to GET /torrents
DaemonList ==
    Response("response", 200, "array",
             [i \in 1..Len(daemon_torrents) |-> Entry("str", daemon_torrents[i])])

\* TorrServer's answer to POST /torrents
DaemonAdded == [kind |-> "response", status |-> 200, text |-> <<>>]

\* add_torrent, lines 38-43, in caller c
ConcBegin(c) ==
    /\ callers[c].pc \in {"idle", "done"}
    /\ Len(daemon_posts) < MaxPosts
    /\ \E m \in ConcMagnets :
        LET v == ValidateMagnet(m)
        IN  callers' = [callers EXCEPT ![c] =
                [pc |-> IF v.ok THEN "check" ELSE "done",
                 magnet |-> m, hash |-> v.hash, result |-> v.result]]
    /\ UNCHANGED <<daemon_torrents, daemon_posts>>
    /\ UNCHANGED <<searchVars, playVars, funVars, statusVars>>

\* add_torrent, lines 46-48, in caller c: the list is read as it is now
ConcCheck(c) ==
    /\ callers[c].pc = "check"
    /\ LET r == CheckExistingTorrent(callers[c].hash, DaemonList, TRUE)
       IN  callers' = [callers EXCEPT
                ![c].pc = IF r.existing THEN "done" ELSE "add",
                ![c].result = r.result]
    /\ UNCHANGED <<daemon_torrents, daemon_posts>>
    /\ UNCHANGED <<searchVars, playVars, funVars, statusVars>>

\* add_torrent, line 51, in caller c: the POST reaches TorrServer
ConcAdd(c) ==
    /\ callers[c].pc = "add"
    /\ daemon_posts' = daemon_posts
            \o <<[caller |-> c, link |-> callers[c].magnet, hash |-> callers[c].hash]>>
    /\ daemon_torrents' =
            IF \E i \in 1..Len(daemon_torrents) :
                   daemon_torrents[i] = Lower(callers[c].hash)
            THEN daemon_torrents
            ELSE daemon_torrents \o <<Lower(callers[c].hash)>>
    /\ callers' = [callers EXCEPT
            ![c].pc = "done",
            ![c].result = AddNewTorrent(callers[c].hash, DaemonAdded)]
    /\ UNCHANGED <<searchVars, playVars, funVars, statusVars>>

---------------------------------------------------------------------------
(* The provider registry: add_provider, remove_provider *)

\* the identifiers providers are registered under: the two of the priority
\* table and one the table does not hold
ProviderNames == {"yts", "tpb", "YTS"}

\* the (identifier, provider) arguments of add_provider
AddInputs == {<<"yts", "YTSProvider">>, <<"yts", "TPBProvider">>,
              <<"tpb", "TPBProvider">>, <<"YTS", "TPBProvider">>}

\* the entry a deleted key leaves in the dictionary's table
Dummy == ""

IsLive(entry) == entry # Dummy

\* the keys of the dictionary in the order it holds them
LiveOrder(entries) == SelectSeq(entries, IsLive)

\* add_provider(name, provider): self.providers[name] = provider. A key the
\* dictionary holds keeps its entry; a new key is appended to the table, which
\* is rebuilt without its dummy entries first when it can take no more.
AddProvider ==
    /\ registry_ops < MaxRegistryOps
    /\ registry_ops' = registry_ops + 1
    /\ \E a \in AddInputs :
        /\ providers' = [n \in DOMAIN providers \cup {a[1]} |->
                            IF n = a[1] THEN a[2] ELSE providers[n]]
        /\ IF a[1] \in DOMAIN providers
           THEN UNCHANGED <<provider_order, provider_usable>>
           ELSE IF provider_usable <= 0
           THEN /\ provider_order' = Append(LiveOrder(provider_order), a[1])
                /\ provider_usable'
                    = UsableFraction(ResizedSlots(Len(LiveOrder(provider_order))))
                        - Len(LiveOrder(provider_order)) - 1
           ELSE /\ provider_order' = Append(provider_order, a[1])
                /\ provider_usable' = provider_usable - 1
    /\ UNCHANGED <<working_mirror, pc, query, idx, mirror, all_results, log,
                   outcome, output>>
    /\ UNCHANGED <<playVars, funVars, concVars, statusVars>>

\* remove_provider(name): del self.providers[name] when the key is there; its
\* entry in the table becomes a dummy
RemoveProvider ==
    /\ registry_ops < MaxRegistryOps
    /\ registry_ops' = registry_ops + 1
    /\ \E name \in ProviderNames :
        /\ providers' = [n \in DOMAIN providers \ {name} |-> providers[n]]
        /\ provider_order' = [i \in 1..Len(provider_order) |->
                                IF provider_order[i] = name THEN Dummy
                                ELSE provider_order[i]]
    /\ UNCHANGED <<provider_usable, working_mirror, pc, query, idx, mirror,
                   all_results, log, outcome, output>>
    /\ UNCHANGED <<playVars, funVars, concVars, statusVars>>

\* the answers of the YTS API in the searches that follow registry operations
RegistryYTSResponses ==
    { [kind |-> "timeout", movies |-> <<>>],
      [kind |-> "ok", movies |-> <<>>],
      [kind |-> "ok",
       movies |-> <<Movie(TRUE, <<Torrent(Hash40("a"), Num(10), Num(1))>>)>>] }

\* the answers of a mirror in the searches that follow registry operations
RegistryMirrorResponses ==
    { [kind |-> "timeout", rows |-> <<>>],
      [kind |-> "page",
       rows |-> <<Row(TRUE, RowMagnet(Hash40("a")), <<10, 1>>)>>] }

---------------------------------------------------------------------------
(* get_tracker_status and the providers' is_available *)

\* provider.name of an instance of the class
ProviderName(class) == IF class = "YTSProvider" THEN "YTS" ELSE "TPB"

\* provider.base_url of an instance of the class
ProviderBaseUrl(class) ==
    IF class = "YTSProvider" THEN "https://yts.mx" ELSE "https://thepiratebay.org"

\* the characters of an identifier
NameChars(name) ==
    CASE name = "yts" -> <<"y", "t", "s">>
      [] name = "tpb" -> <<"t", "p", "b">>
      [] name = "YTS" -> <<"Y", "T", "S">>

\* str.upper() on one character
UpperChar(c) ==
    IF \E i \in 1..Len(LowerLetters) : LowerLetters[i] = c
    THEN UpperLetters[CHOOSE i \in 1..Len(LowerLetters) : LowerLetters[i] = c]
    ELSE c

\* str.upper()
Upper(s) == [i \in 1..Len(s) |-> UpperChar(s[i])]

\* what one availability GET can meet: status 200, another status, an exception
ProbeAnswers == {"200", "404", "raised"}

\* what one provider instance meets when it is probed: the answer of the YTS
\* API and the answers of the five mirrors
ProbeInputs ==
    { [api |-> "200", mirrors |-> <<"404", "raised", "200", "404", "raised">>],
      [api |-> "404", mirrors |-> <<"404", "404", "404", "404", "404">>],
      [api |-> "raised", mirrors |-> <<"200", "404", "404", "404", "404">>] }

\* YTSProvider.is_available: one GET, True on status 200, False on another
\* status or an exception
YTSIsAvailable(probe) == probe.api = "200"

\* TPBProvider.is_available from mirror i on: True at the first mirror that
\* answers 200, the next mirror after another status or an exception, False
\* after the last one
RECURSIVE TPBIsAvailableFrom(_, _)
TPBIsAvailableFrom(probe, i) ==
    IF i > Len(Mirrors) THEN FALSE
    ELSE IF probe.mirrors[i] = "200" THEN TRUE
    ELSE TPBIsAvailableFrom(probe, i + 1)

IsAvailable(class, probe) ==
    IF class = "YTSProvider" THEN YTSIsAvailable(probe)
    ELSE TPBIsAvailableFrom(probe, 1)

\* the dictionary get_tracker_status stores for one provider (lines 469-473)
StatusEntry(class, probe) ==
    [available |-> IsAvailable(class, probe),
     name |-> ProviderName(class),
     url |-> ProviderBaseUrl(class)]

\* status[name.upper()] = entry, which replaces an entry stored under the
\* same key
StatusStore(dict, name, entry) ==
    LET key == Upper(NameChars(name))
    IN  [k \in DOMAIN dict \cup {key} |-> IF k = key THEN entry ELSE dict[k]]

\* the number of mirrors TPBProvider.is_available requests from mirror i on
RECURSIVE TPBProbeCount(_, _)
TPBProbeCount(probe, i) ==
    IF i > Len(Mirrors) THEN 0
    ELSE IF probe.mirrors[i] = "200" THEN 1
    ELSE 1 + TPBProbeCount(probe, i + 1)

\* the requests provider.is_available() sends, each with the identifier the
\* provider is probed for, its URL and its answer
ProbeGets(name, class, probe) ==
    IF class = "YTSProvider"
    THEN <<Event(name, <<"https://yts.mx", "/api/v2/list_movies.json">>,
                 probe.api)>>
    ELSE [i \in 1..TPBProbeCount(probe, 1) |->
             Event(name, <<Mirrors[i], "/">>, probe.mirrors[i])]

\* no provider is being probed
NoProbe ==
    [name |-> "", class |-> "", probe |-> [api |-> "", mirrors |-> <<>>],
     sent |-> 0]

NoStatusCall ==
    [pc |-> "idle", pos |-> 0, used |-> 0, len |-> 0, error |-> "",
     probing |-> NoProbe]

StatusInit ==
    /\ status_call = NoStatusCall
    /\ status_dict = <<>>
    /\ status_gets = <<>>

\* get_tracker_status is entered (lines 464-466): status = {}, and the for
\* statement takes an iterator of self.providers.items(), which notes the
\* size of the dictionary
StatusBegin ==
    /\ status_call.pc \in {"idle", "returned", "raised"}
    /\ status_call' = [pc |-> "iterating", pos |-> 0,
                       used |-> Cardinality(DOMAIN providers),
                       len |-> Cardinality(DOMAIN providers), error |-> "",
                       probing |-> NoProbe]
    /\ status_dict' = <<>>
    /\ status_gets' = <<>>
    /\ UNCHANGED <<searchVars, playVars, funVars, concVars>>

\* the table positions behind the iterator's that hold a key
LiveAfter(entries, pos) == {i \in (pos + 1)..Len(entries) : IsLive(entries[i])}

FirstOf(positions) == CHOOSE i \in positions : \A j \in positions : i <= j

\* next() of the iterator of a dictionary of `size` keys: RuntimeError when
\* the size is not the one noted, the end when no key is left in the table,
\* RuntimeError when a key is left after as many as the dictionary had, else
\* the first key behind the iterator's position
IteratorNext(it, size, entries) ==
    IF it.used # size
    THEN [kind |-> "raise", at |-> it.pos,
          error |-> "dictionary changed size during iteration"]
    ELSE IF LiveAfter(entries, it.pos) = {}
    THEN [kind |-> "stop", at |-> it.pos, error |-> ""]
    ELSE IF it.len = 0
    THEN [kind |-> "raise", at |-> it.pos,
          error |-> "dictionary keys changed during iteration"]
    ELSE [kind |-> "item", at |-> FirstOf(LiveAfter(entries, it.pos)), error |-> ""]

\* the for statement of line 466 asks its iterator for the next item: next()
\* raises RuntimeError out of get_tracker_status, ends the loop (return
\* status), or gives (name, provider), on which line 468 calls is_available()
StatusStep ==
    /\ status_call.pc = "iterating"
    /\ LET n == IteratorNext(status_call, Cardinality(DOMAIN providers),
                             provider_order)
       IN  IF n.kind = "raise"
           THEN status_call' = [status_call EXCEPT !.pc = "raised",
                                                   !.error = n.error]
           ELSE IF n.kind = "stop"
           THEN status_call' = [status_call EXCEPT !.pc = "returned"]
           ELSE \E probe \in ProbeInputs :
                  LET name == provider_order[n.at]
                  IN  status_call' =
                        [status_call EXCEPT
                           !.pc = "probing",
                           !.pos = n.at,
                           !.len = status_call.len - 1,
                           !.probing =
                              [name |-> name, class |-> providers[name],
                               probe |-> probe, sent |-> 0]]
    /\ UNCHANGED <<status_dict, status_gets>>
    /\ UNCHANGED <<searchVars, playVars, funVars, concVars>>

\* one GET of provider.is_available() is answered. After its last one
\* is_available returns and lines 469-473 store the provider's entry; the
\* provider is the one the iterator gave, whatever the registry holds by then
StatusGet ==
    /\ status_call.pc = "probing"
    /\ LET p == status_call.probing
           gets == ProbeGets(p.name, p.class, p.probe)
           i == p.sent + 1
       IN  /\ status_gets' = Append(status_gets, gets[i])
           /\ IF i < Len(gets)
              THEN /\ status_call' = [status_call EXCEPT !.probing.sent = i]
                   /\ UNCHANGED status_dict
              ELSE /\ status_call' = [status_call EXCEPT !.pc = "iterating",
                                                         !.probing = NoProbe]
                   /\ status_dict' =
                        StatusStore(status_dict, p.name,
                                    StatusEntry(p.class, p.probe))
    /\ UNCHANGED <<searchVars, playVars, funVars, concVars>>

---------------------------------------------------------------------------
(* Specifications *)

Init == SearchInit /\ PlayInit /\ FunInit /\ ConcInit /\ StatusInit

Next ==
    \/ SearchBegin
    \/ NextProvider
    \/ YTSSearchBegin
    \/ YTSSearchEnd
    \/ TPBSearchBegin
    \/ TPBTryMirror
    \/ TPBAllMirrorsFailed
    \/ Rank

\* calls of search_torrents
Spec == Init /\ [][Next]_vars

PlaybackNext ==
    \/ AddTorrentBegin
    \/ CheckExisting
    \/ AddNew

\* calls of add_torrent
PlaybackSpec == Init /\ [][PlaybackNext]_vars

FunctionNext ==
    \/ HealthScoreCall
    \/ FormattedQueryCall

\* evaluations of the derived properties
FunctionSpec == Init /\ [][FunctionNext]_vars

QualityNext == ExtractQualityCall

\* evaluations of _extract_quality
QualitySpec == Init /\ [][QualityNext]_vars

ConcurrentNext ==
    \E c \in Callers :
        \/ ConcBegin(c)
        \/ ConcCheck(c)
        \/ ConcAdd(c)

\* add_torrent calls in two threads
ConcurrentSpec == Init /\ [][ConcurrentNext]_vars

RegistryNext ==
    \/ AddProvider
    \/ RemoveProvider
    \/ SearchBegin
    \/ NextProvider
    \/ YTSSearchBegin
    \/ YTSSearchEndOn(RegistryYTSResponses)
    \/ TPBSearchBegin
    \/ TPBTryMirrorOn(RegistryMirrorResponses)
    \/ TPBAllMirrorsFailed
    \/ Rank

StatusNext ==
    \/ AddProvider
    \/ RemoveProvider
    \/ StatusBegin
    \/ StatusStep
    \/ StatusGet

\* calls of get_tracker_status in one thread, add_provider and remove_provider
\* in others
StatusSpec == Init /\ [][StatusNext]_vars

\* calls of search_torrents in one thread, add_provider and remove_provider in
\* others
RegistrySpec == Init /\ [][RegistryNext]_vars

---------------------------------------------------------------------------
(* Properties of search_torrents *)

Logged(kind, what, detail) == \E i \in 1..Len(log) : log[i] = Event(kind, what, detail)

SearchesOf(class) == {i \in 1..Len(log) : log[i] = Event("search", class, "")}

MirrorRequests == {i \in 1..Len(log) : log[i][1] = "get" /\ log[i][2] \in Range(Mirrors)}

MovieCall == providers = DefaultProviders /\ query.media_type = "movie"

TVCall == providers = DefaultProviders /\ query.media_type = "tv"

LoopOver == pc \in {"rank", "done"}

\* C1: in a movie search, once YTS has returned a non-empty list, the TPB
\* provider is not invoked and no mirror is requested in that call, and a list
\* that is returned holds YTS results only.
C1_YTSResultsShortCircuit ==
    (MovieCall /\ Logged("result", "YTS", "nonempty"))
        => /\ SearchesOf("TPB") = {}
           /\ MirrorRequests = {}
           /\ pc # "tpb"
           /\ outcome = "returned" => \A i \in 1..Len(output) : output[i].source = "YTS"

C1_Witness ==
    /\ pc = "done"
    /\ outcome = "returned"
    /\ MovieCall
    /\ Logged("result", "YTS", "nonempty")
    /\ Len(output) >= 2

\* C2: in a movie search, YTS is always entered before TPB, and when YTS returned
\* an empty list or raised its provider error, TPB is entered exactly once in
\* the same call, after the YTS outcome.
C2_YTSFallsBackToTPB ==
    MovieCall
        => /\ \A i \in SearchesOf("TPB") : \E j \in SearchesOf("YTS") : j < i
           /\ \A j \in 1..Len(log) :
                (LoopOver /\ log[j] \in {Event("result", "YTS", "empty"),
                                          Event("result", "YTS", "raised")})
                    => /\ Cardinality(SearchesOf("TPB")) = 1
                       /\ \A i \in SearchesOf("TPB") : i > j

C2_Witness ==
    /\ pc = "done"
    /\ outcome = "returned"
    /\ MovieCall
    /\ Logged("result", "YTS", "raised")
    /\ Logged("result", "TPB", "nonempty")
    /\ Len(output) >= 1

\* C3: a TV search never enters the YTS provider and never sends a request to
\* the YTS API; the TPB provider is the one that is tried.
C3_TVNeverUsesYTS ==
    TVCall
        => /\ SearchesOf("YTS") = {}
           /\ ~Logged("get", "https://yts.mx", "")
           /\ LoopOver => Cardinality(SearchesOf("TPB")) = 1

C3_Witness ==
    /\ pc = "done"
    /\ outcome = "returned"
    /\ TVCall
    /\ Logged("result", "TPB", "nonempty")
    /\ Len(output) >= 1

\* C4: for a valid media type and whatever the providers answer, search_torrents
\* returns a list and raises nothing to its caller.
C4_AlwaysReturnsList ==
    (pc = "done" /\ query.media_type \in MediaTypeValues) => outcome = "returned"

---------------------------------------------------------------------------
(* Ranking *)

DictKeyGreater(a, b) ==
    \/ a.health_score > b.health_score
    \/ a.health_score = b.health_score /\ a.seeders > b.seeders

\* the position in the collected list of the result a returned record shows
PositionOf(collected, d) ==
    CHOOSE k \in 1..Len(collected) :
        collected[k].name = d.name /\ collected[k].source = d.source

Shown(collected, out) == {PositionOf(collected, out[i]) : i \in 1..Len(out)}

Returning == pc = "rank" /\ pc' = "done" /\ outcome' = "returned"

\* C5: the returned list is ordered non-increasingly by (health_score, seeders),
\* and two results with equal pairs keep the order they had in the
\* concatenated provider output.
C5_RankedAndStable ==
    [][Returning =>
        \A i, j \in 1..Len(output') :
            i < j => /\ ~DictKeyGreater(output'[j], output'[i])
                     /\ ~DictKeyGreater(output'[i], output'[j])
                            => PositionOf(all_results, output'[i])
                                   < PositionOf(all_results, output'[j])]_vars

C5_Witness ==
    /\ pc = "done"
    /\ outcome = "returned"
    /\ \E i, j, k \in 1..Len(output) :
        /\ i < j /\ j < k
        /\ DictKeyGreater(output[i], output[j])
        /\ output[j].health_score = output[k].health_score
        /\ output[j].seeders = output[k].seeders
        /\ output[j].leechers # output[k].leechers

\* C6: the returned list has min(n, MAX_TORRENT_RESULTS) records for n collected
\* results, each a different collected result, and no collected result that
\* is left out has a greater (health_score, seeders) pair than one returned.
C6_CappedToBestResults ==
    [][Returning =>
        /\ Len(output') = Min(Len(all_results), MAX_TORRENT_RESULTS)
        /\ Len(output') <= MAX_TORRENT_RESULTS
        /\ \A i \in 1..Len(output') :
            /\ \E k \in 1..Len(all_results) :
                   output'[i] = TorrentToDict(all_results[k])
            /\ \A j \in 1..Len(output') :
                   i # j => PositionOf(all_results, output'[i])
                                # PositionOf(all_results, output'[j])
        /\ \A k \in 1..Len(all_results) :
            k \notin Shown(all_results, output')
                => \A i \in 1..Len(output') :
                       ~DictKeyGreater(TorrentToDict(all_results[k]), output'[i])]_vars

C6_Witness ==
    /\ pc = "done"
    /\ outcome = "returned"
    /\ Len(all_results) > MAX_TORRENT_RESULTS
    /\ Len(output) = MAX_TORRENT_RESULTS
    /\ \E i, j \in 1..Len(output) : DictKeyGreater(output[i], output[j])

---------------------------------------------------------------------------
(* Properties of add_torrent *)

Posts == {i \in 1..Len(http) : http[i].method = "POST"}

\* the input is no magnet URI, or the hash pattern occurs nowhere in it
Unacceptable(m) ==
    \/ ~StartsWith(m, MagnetScheme)
    \/ \A i \in 1..Len(m) : ~HashPatternAt(m, XtLiteral, i)

\* C7: when the input does not start with "magnet:" or holds no hash, the call
\* returns a Failure and sends no request, neither the GET of the torrent list
\* nor the registering POST.
C7_InvalidInputFailsFast ==
    (play_pc # "idle" /\ Unacceptable(magnet_link))
        => /\ play_pc = "done"
           /\ play_outcome = "returned"
           /\ result.success = FALSE
           /\ http = <<>>

C7_Witness ==
    /\ play_pc = "done"
    /\ StartsWith(magnet_link, MagnetScheme)
    /\ Unacceptable(magnet_link)
    /\ result = Failure(<<"Cannot extract hash from magnet link">>)

\* the GET was answered 200 with an array that holds an entry whose hash is a
\* string equal to h up to letter case
ListHolds(answer, h) ==
    /\ answer.kind = "response"
    /\ answer.status = 200
    /\ answer.body = "array"
    /\ \E i \in 1..Len(answer.entries) :
        /\ answer.entries[i].kind = "str"
        /\ Lower(answer.entries[i].text) = Lower(h)

\* C8: when GET /torrents succeeds and its array holds an entry whose hash
\* equals the extracted hash up to letter case, the call returns Success with
\* the stream URL {base}{stream_path}?link={hash}&index=1&play and sends no POST.
C8_ExistingTorrentShortCircuits ==
    (Len(http) >= 1 /\ ListHolds(http[1].answer, hash_string))
        => /\ play_pc = "done"
           /\ play_outcome = "returned"
           /\ result.success = TRUE
           /\ result.stream_url
                = <<BASE_URL, STREAM_PATH, "?link=">> \o hash_string \o <<"&index=1&play">>
           /\ result.hash = hash_string
           /\ Posts = {}
           /\ Len(http) = 1

\* the existence check failed: no answer in time, no connection, or a status
\* other than 200
CheckFailed(answer) ==
    \/ answer.kind \in RequestFailures
    \/ answer.kind = "response" /\ answer.status # 200

\* C9: a failed existence check (timeout, network error, non-200 status) counts
\* as "not found": the call goes on to the POST, and whether it ends in Success
\* or Failure is what the POST's answer says.
C9_CheckFailureIsNotFound ==
    (Len(http) >= 1 /\ CheckFailed(http[1].answer))
        => /\ play_pc \in {"add", "done"}
           /\ play_pc = "done"
                => /\ play_outcome = "returned"
                   /\ Len(http) = 2
                   /\ http[2].method = "POST"
                   /\ result.success
                        = (http[2].answer.kind = "response" /\ http[2].answer.status = 200)

C9_Witness ==
    /\ play_pc = "done"
    /\ Len(http) = 2
    /\ http[1].answer.kind = "timeout"
    /\ result.success = TRUE

\* C10: once the POST is sent, the call returns Success exactly when the answer
\* is 200, with a stream URL that holds the extracted hash; another status gives
\* a Failure holding the status code and the response text, a timeout a Failure
\* asking to try again, a connection error a Failure naming the base URL.
C10_PostDecidesOutcome ==
    (play_pc = "done" /\ Posts # {})
        => LET p == http[Len(http)].answer
           IN  /\ play_outcome = "returned"
               /\ result.success = (p.kind = "response" /\ p.status = 200)
               /\ result.success
                    => /\ Contains(result.stream_url, hash_string)
                       /\ result.hash = hash_string
               /\ (p.kind = "response" /\ p.status # 200)
                    => /\ Contains(result.error, Decimal(p.status))
                       /\ Contains(result.error, p.text)
               /\ p.kind \in {"timeout", "connect_timeout"}
                    => result.error = <<"TorrServer timeout - try again">>
               /\ p.kind = "connection_error"
                    => Contains(result.error, <<BASE_URL>>)

C10_Witness ==
    /\ play_pc = "done"
    /\ Posts # {}
    /\ http[Len(http)].answer.kind = "response"
    /\ http[Len(http)].answer.status = 500
    /\ http[Len(http)].answer.text # <<>>
    /\ result.success = FALSE

\* the dictionary is one of the two variants, wholly populated
OneOutcome(r) ==
    \/ DOMAIN r = {"success", "stream_url", "hash", "message"} /\ r.success = TRUE
    \/ DOMAIN r = {"success", "error"} /\ r.success = FALSE

\* C11: whatever the input string and whatever TorrServer does (a 200 answer
\* whose body is no array of objects with string hashes included), a finished
\* add_torrent call has returned one dictionary, Success or Failure, and has
\* raised nothing to its caller.
C11_NeverRaises ==
    play_pc = "done" => /\ play_outcome = "returned"
                        /\ OneOutcome(result)

---------------------------------------------------------------------------
(* Properties of the hash extraction *)

\* the characters that follow "magnet:?xt=urn:btih:" in m, n of them
HashPortion(m, n) == SubSeq(m, Len(XtLiteral) + 1, Len(XtLiteral) + n)

\* m is "magnet:?xt=urn:btih:" and exactly 40 hexadecimal characters, then the
\* end or another parameter
Hex40Magnet(m) ==
    /\ StartsWith(m, XtLiteral)
    /\ HexRun(m, Len(XtLiteral) + 1) = 40

\* C12: for a magnet URI whose hash portion is 40 hexadecimal characters, the
\* extracted hash is that portion, character for character, letter case kept.
C12_Hex40Unchanged ==
    (play_pc # "idle" /\ Hex40Magnet(magnet_link))
        => hash_string = HashPortion(magnet_link, 40)

C12_Witness ==
    /\ play_pc = "check"
    /\ Hex40Magnet(magnet_link)
    /\ hash_string = MixedCaseHash

\* m is "magnet:?xt=urn:btih:" and exactly 32 base32 digits (A-Z, 2-7), then
\* the end or another parameter
Base32Magnet(m) ==
    /\ Len(m) >= Len(XtLiteral) + 32
    /\ StartsWith(m, XtLiteral)
    /\ \A i \in 1..32 : IsBase32Char(m[Len(XtLiteral) + i])
    /\ Len(m) > Len(XtLiteral) + 32 => ~IsBase32Char(m[Len(XtLiteral) + 33])

\* C13: for a magnet URI whose hash portion is a 32-digit base32 info-hash, the
\* extracted hash is the 40-character lower-case hexadecimal form of the twenty
\* bytes the base32 digits encode (so that encoding it back gives the input).
C13_Base32BecomesHex40 ==
    (play_pc # "idle" /\ Base32Magnet(magnet_link))
        => /\ Len(hash_string) = 40
           /\ hash_string = B32DecodeHex(HashPortion(magnet_link, 32), 0).hex

\* the call went past the two checks of lines 38-43
Accepted == play_pc \in {"check", "add"} \/ (play_pc = "done" /\ http # <<>>)

\* C14: add_torrent takes its argument for a magnet exactly when it starts with
\* "magnet:" and magnet:?xt=urn:btih: followed by 40 or 32 hash characters
\* occurs in it; every other string is rejected with a Failure. The magnet of
\* 40 "a" is accepted, "not-a-magnet" is rejected.
C14_AcceptsExactlyMagnets ==
    play_pc # "idle"
        => /\ Accepted <=> ~Unacceptable(magnet_link)
           /\ ~Accepted => (play_pc = "done" /\ result.success = FALSE)
           /\ magnet_link = XtLiteral \o Repeat(<<"a">>, 40) => Accepted
           /\ magnet_link = NotAMagnet => ~Accepted

C14_Witness ==
    /\ Accepted
    /\ play_pc = "done"
    /\ StartsWith(magnet_link, XtLiteral)
    /\ HexRun(magnet_link, Len(XtLiteral) + 1) = 32
    /\ play_outcome = "returned"
    /\ result.success = TRUE

---------------------------------------------------------------------------
(* Properties of health_score and formatted_query *)

\* C15: for a seeder count s >= 0 and any leecher count, health_score is 0 when
\* s = 0, 100 when s >= 50 and 2*s otherwise; it lies in 0..100 and is the same
\* for every leecher count.
C15_HealthScoreTable ==
    (fn_call.fn = "health_score" /\ fn_call.seeders >= 0)
        => LET s == fn_call.seeders
           IN  /\ fn_ret = (IF s = 0 THEN 0 ELSE IF s >= 50 THEN 100 ELSE 2 * s)
               /\ fn_ret \in 0..100
               /\ \A l \in LeecherCounts :
                      health_score(TorrentResult(<<0, 0>>, Num(s), Num(l), "TPB", <<>>))
                          = fn_ret

C15_Witness ==
    /\ fn_call.fn = "health_score"
    /\ fn_call.seeders = 51
    /\ fn_call.leechers = MaxLeechers
    /\ fn_ret = 100

\* a season or episode that is given: a positive integer
Present(v) == IsNum(v) /\ v.val >= 1

\* a season or episode of the data model: absent, or a positive integer
Optional(v) == v = Null \/ Present(v)

\* C16: the formatted query is the title, then the year when it is not empty,
\* then S<season>E<episode> (two digits each) when season and episode are both
\* given, "Season <season>" when only the season is given, and no token
\* otherwise (an episode without a season adds none), joined by single spaces.
C16_FormattedQueryTokens ==
    (fn_call.fn = "formatted_query"
        /\ Optional(fn_call.query.season) /\ Optional(fn_call.query.episode))
        => LET q == fn_call.query
               title == <<q.title>>
               year == IF q.year # "" THEN <<" ", q.year>> ELSE <<>>
               rest == SubSeq(fn_ret, Len(title) + Len(year) + 1, Len(fn_ret))
           IN  /\ SubSeq(fn_ret, 1, Len(title) + Len(year)) = title \o year
               /\ (Present(q.season) /\ Present(q.episode))
                    => /\ Len(rest) = 7
                       /\ SubSeq(rest, 1, 2) = <<" ", "S">>
                       /\ SubSeq(rest, 3, 4) = TwoDigits(q.season.val)
                       /\ rest[5] = "E"
                       /\ SubSeq(rest, 6, 7) = TwoDigits(q.episode.val)
               /\ (Present(q.season) /\ q.episode = Null)
                    => rest = <<" ", "Season ">> \o Decimal(q.season.val)
               /\ q.season = Null => rest = <<>>

C16_Witness ==
    /\ fn_call.fn = "formatted_query"
    /\ fn_call.query.season = Null
    /\ fn_call.query.episode = Num(5)
    /\ fn_ret = <<"Show", " ", "2020">>

---------------------------------------------------------------------------
(* Properties of the query construction and of the TPB mirrors *)

\* C17: a search_torrents call whose media type is neither "movie" nor "tv" ends
\* by raising while the query is built: no provider has been entered, no request
\* sent, nothing collected or returned.
C17_InvalidMediaTypeFailsFirst ==
    (pc # "idle" /\ query.media_type \notin MediaTypeValues)
        => /\ pc = "done"
           /\ outcome = "raised"
           /\ log = <<>>
           /\ all_results = <<>>
           /\ output = <<>>

C17_Witness ==
    /\ pc = "done"
    /\ query.media_type = "music"
    /\ outcome = "raised"
    /\ working_mirror # 0

\* the POSTs TorrServer has received for the info-hash h
PostsFor(h) == {i \in 1..Len(daemon_posts) : Lower(daemon_posts[i].hash) = Lower(h)}

\* C18: however two concurrent add_torrent calls for one magnet interleave,
\* against a reachable TorrServer that does not hold the torrent when they
\* start, TorrServer receives at most one POST for that info-hash.
C18_OnePostPerHash ==
    \A c \in Callers :
        callers[c].pc # "idle" => Cardinality(PostsFor(callers[c].hash)) <= 1

---------------------------------------------------------------------------
(* Properties of the TPB mirror loop *)

IsMirrorGet(e) == e[1] = "get" /\ e[2] \in Range(Mirrors)

\* the mirror requests of the call, in the order they were sent
MirrorAttempts == SelectSeq(log, IsMirrorGet)

\* C19: a TPB search requests the mirrors in the order of the mirror list and
\* from the first one in every call, whichever mirror worked before; it goes on
\* to the next mirror only after a failure or an empty page, ends at the first
\* mirror with results and hands those results back, and hands back an empty
\* list when all mirrors have been tried without results.
C19_MirrorsInOrder ==
    LET a == MirrorAttempts
    IN  /\ Len(a) <= Len(Mirrors)
        /\ \A k \in 1..Len(a) : a[k][2] = Mirrors[k]
        /\ \A k \in 1..(Len(a) - 1) : a[k][3] \in {"raised", "empty"}
        /\ pc = "tpb" => /\ mirror = Len(a) + 1
                         /\ \A k \in 1..Len(a) : a[k][3] \in {"raised", "empty"}
        /\ (pc # "tpb" /\ a # <<>>)
              => \/ /\ a[Len(a)][3] = "nonempty"
                    /\ Logged("result", "TPB", "nonempty")
                    /\ ~Logged("result", "TPB", "empty")
                    /\ working_mirror = Len(a)
                    /\ (providers = DefaultProviders /\ outcome # "raised")
                         => /\ all_results # <<>>
                            /\ \A i \in 1..Len(all_results) :
                                   all_results[i].source = "TPB"
                 \/ /\ Len(a) = Len(Mirrors)
                    /\ a[Len(a)][3] \in {"raised", "empty"}
                    /\ Logged("result", "TPB", "empty")
                    /\ ~Logged("result", "TPB", "nonempty")
                    /\ providers = DefaultProviders => all_results = <<>>

C19_Witness ==
    /\ pc = "tpb"
    /\ working_mirror = 3
    /\ Len(MirrorAttempts) = 2
    /\ MirrorAttempts[1] = Event("get", Mirrors[1], "raised")
    /\ MirrorAttempts[2] = Event("get", Mirrors[2], "empty")

\* C20: in one TPB search a sleep lies between every two consecutive mirror
\* requests, whether the earlier request ended in an empty page or in an error.
C20_DelayBetweenAttempts ==
    \A i, j \in 1..Len(log) :
        (i < j /\ IsMirrorGet(log[i]) /\ IsMirrorGet(log[j]))
            => \E k \in (i + 1)..(j - 1) : log[k][1] = "sleep"

---------------------------------------------------------------------------
(* Termination *)

ProviderSearches == {i \in 1..Len(log) : log[i][1] = "search"}

InCall == pc \in {"loop", "yts", "tpb", "rank"}

\* the steps one entry of the priority list can take at most: entering the
\* provider, one step per mirror, and the step that hands back the empty list
EntrySteps == Len(Mirrors) + 2

\* an upper bound of the steps the call in progress still has to take
StepsLeft ==
    LET entries == Len(ProviderPriority(query.media_type)) + 1 - idx
    IN  IF pc = "loop" THEN entries * EntrySteps + 2
        ELSE IF pc = "yts" THEN (entries - 1) * EntrySteps + 3
        ELSE IF pc = "tpb"
        THEN (entries - 1) * EntrySteps + 2 + (Len(Mirrors) + 2 - mirror)
        ELSE IF pc = "rank" THEN 1
        ELSE 0

\* the guard of one of the steps of a call holds
CanStep ==
    \/ pc = "loop" /\ idx > Len(ProviderPriority(query.media_type))
    \/ pc = "loop" /\ idx <= Len(ProviderPriority(query.media_type))
                   /\ CurrentName \notin DOMAIN providers
    \/ AtProvider("YTSProvider")
    \/ pc = "yts" /\ YTSResponses # {}
    \/ AtProvider("TPBProvider")
    \/ pc = "tpb" /\ mirror <= Len(Mirrors) /\ MirrorResponses # {}
    \/ pc = "tpb" /\ mirror > Len(Mirrors)
    \/ pc = "rank"

\* C21: every search_torrents call comes to its end: while it runs a next step
\* can always be taken, and each step of the call lowers a bound on the steps
\* that are left, so no loop repeats without limit; in a call each entry of the
\* priority list is searched at most once, and a TPB search sends at most one
\* request to each of the 5 mirrors, 5 at most.
C21_SearchTerminates ==
    /\ [](/\ Len(Mirrors) = 5
          /\ Len(MirrorAttempts) <= 5
          /\ \A i, j \in 1..Len(MirrorAttempts) :
                 i # j => MirrorAttempts[i][2] # MirrorAttempts[j][2]
          /\ pc # "idle"
                => /\ Cardinality(ProviderSearches) <= Len(ProviderPriority(query.media_type))
                   /\ \A i, j \in ProviderSearches : i # j => log[i][2] # log[j][2]
          /\ InCall => (StepsLeft > 0 /\ CanStep))
    /\ [][InCall => (StepsLeft' >= 0 /\ StepsLeft' < StepsLeft)]_vars

C21_Witness ==
    /\ pc = "done"
    /\ outcome = "returned"
    /\ Cardinality(ProviderSearches) = 2
    /\ Len(MirrorAttempts) = 5
    /\ Logged("result", "TPB", "empty")

---------------------------------------------------------------------------
(* Properties of the quality extraction *)

\* the items of the table whose pattern occurs in the name, letter case apart
PatternsIn(name) == {k \in 1..Len(QualityMap) : Contains(Lower(name), QualityMap[k][1])}

\* C22: _extract_quality gives the tag of the first item of the table, in the
\* order 2160p, 4k, 1080p, 720p, 480p, dvdrip, webrip, webdl, bluray, hdtv,
\* whose pattern occurs in the name without regard to letter case, and
\* "Unknown" when none occurs; Movie.Title.1080p.BluRay gives 1080p.
C22_FirstPatternWins ==
    fn_call.fn = "_extract_quality"
        => LET hits == PatternsIn(fn_call.name)
           IN  /\ [k \in 1..Len(QualityMap) |-> QualityMap[k][1]]
                    = << <<"2", "1", "6", "0", "p">>, <<"4", "k">>, <<"1", "0", "8", "0", "p">>, <<"7", "2", "0", "p">>, <<"4", "8", "0", "p">>,
                         <<"d", "v", "d", "r", "i", "p">>, <<"w", "e", "b", "r", "i", "p">>, <<"w", "e", "b", "d", "l">>, <<"b", "l", "u", "r", "a", "y">>, <<"h", "d", "t", "v">> >>
               /\ hits = {} => fn_ret = "Unknown"
               /\ hits # {}
                    => fn_ret = QualityMap[CHOOSE k \in hits : \A j \in hits : k <= j][2]
               /\ fn_call.name = <<"M", "o", "v", "i", "e", ".", "T", "i", "t", "l", "e", ".", "1", "0", "8", "0", "p", ".", "B", "l", "u", "R", "a", "y">>
                    => fn_ret = "1080p"

C22_Witness ==
    /\ fn_call.fn = "_extract_quality"
    /\ fn_call.name = <<"M", "o", "v", "i", "e", ".", "T", "i", "t", "l", "e", ".", "B", "l", "u", "R", "a", "y", ".", "1", "0", "8", "0", "p">>
    /\ fn_ret = "1080p"

---------------------------------------------------------------------------
(* State shared between search calls *)

\* C23: a search writes nothing that outlives the call and is shared with other
\* calls on the same searcher: no step of search_torrents changes the provider
\* registry or a field of a provider instance.
C23_SearchWritesNoSharedState ==
    [][/\ providers' = providers
       /\ working_mirror' = working_mirror]_vars

---------------------------------------------------------------------------
(* The hash field of the results *)

WellFormedHash(h) ==
    \/ h = <<>>
    \/ Len(h) = 40 /\ \A i \in 1..Len(h) : h[i] \in HexChars

\* C24: the hash of every result a provider hands over, and of every record
\* search_torrents returns, is the empty string or 40 hexadecimal characters.
C24_HashEmptyOrHex40 ==
    /\ \A i \in 1..Len(all_results) : WellFormedHash(all_results[i].hash)
    /\ \A i \in 1..Len(output) : WellFormedHash(output[i].hash)

---------------------------------------------------------------------------
(* Deduplication across calls *)

\* the 40-character hexadecimal info-hash of the torrent a magnet names: its
\* 40 hexadecimal characters, or the twenty bytes its 32 base32 digits encode
InfoHash(m) ==
    IF Hex40Magnet(m) THEN Lower(HashPortion(m, 40))
    ELSE B32DecodeHex(HashPortion(m, 32), 0).hex

\* GET /torrents was answered 200 with an array of entries with string hashes,
\* one of them h
DaemonHolds(answer, h) ==
    /\ answer.kind = "response"
    /\ answer.status = 200
    /\ answer.body = "array"
    /\ \A i \in 1..Len(answer.entries) : answer.entries[i].kind = "str"
    /\ \E i \in 1..Len(answer.entries) : answer.entries[i].text = h

\* C25: for an accepted magnet, in the 40-character or in the 32-character
\* form, a call made while TorrServer holds the torrent under its 40-character
\* hexadecimal info-hash and answers the list request returns the "already
\* exists" Success and sends no POST.
C25_HeldTorrentIsNotPostedAgain ==
    (/\ Len(http) >= 1
     /\ Hex40Magnet(magnet_link) \/ Base32Magnet(magnet_link)
     /\ DaemonHolds(http[1].answer, InfoHash(magnet_link)))
        => /\ play_pc = "done"
           /\ play_outcome = "returned"
           /\ result = Success(hash_string, "Torrent already exists, stream is ready")
           /\ Posts = {}

---------------------------------------------------------------------------
(* One source per call *)

Sources(records) == {records[i].source : i \in 1..Len(records)}

\* C26: with the default registry and priority table, the records one call
\* collects and returns all carry the same source: YTS only or TPB only for a
\* movie search, TPB only for a TV search.
C26_OneSourcePerCall ==
    providers = DefaultProviders
        => /\ Cardinality(Sources(all_results)) <= 1
           /\ Cardinality(Sources(output)) <= 1
           /\ Sources(all_results) \cup Sources(output) \subseteq {"YTS", "TPB"}
           /\ query.media_type = "tv"
                => Sources(all_results) \cup Sources(output) \subseteq {"TPB"}

C26_Witness ==
    /\ pc = "done"
    /\ outcome = "returned"
    /\ MovieCall
    /\ Logged("result", "YTS", "empty")
    /\ Len(output) >= 2
    /\ Sources(output) = {"TPB"}

---------------------------------------------------------------------------
(* Ranking by seeders alone *)

\* x put behind the last element with at least as many seeders
InsertBySeeders(sorted, x) ==
    LET k == Cardinality({i \in 1..Len(sorted) :
                              sorted[i].seeders.val >= x.seeders.val})
    IN  SubSeq(sorted, 1, k) \o <<x>> \o SubSeq(sorted, k + 1, Len(sorted))

\* a stable sort by seeders, descending
RECURSIVE SortBySeeders(_)
SortBySeeders(s) ==
    IF s = <<>> THEN <<>>
    ELSE InsertBySeeders(SortBySeeders(SubSeq(s, 1, Len(s) - 1)), s[Len(s)])

SeedersKnown(records) ==
    \A i \in 1..Len(records) :
        IsNum(records[i].seeders) /\ records[i].seeders.val >= 0

\* C27: among collected results with non-negative seeder counts, more seeders
\* never give a lower health_score, and the sort of line 442 by
\* (health_score, seeders) leaves the list in the order of a stable
\* descending sort by seeders alone; the returned records follow that order.
C27_RankingIsBySeeders ==
    /\ [](SeedersKnown(all_results)
            => \A i, j \in 1..Len(all_results) :
                 all_results[i].seeders.val <= all_results[j].seeders.val
                    => health_score(all_results[i]) <= health_score(all_results[j]))
    /\ [][(pc = "rank" /\ pc' = "done" /\ SeedersKnown(all_results))
            => /\ all_results' = SortBySeeders(all_results)
               /\ outcome' = "returned"
                    => \A i \in 1..Len(output') :
                         output'[i] = TorrentToDict(SortBySeeders(all_results)[i])]_vars

C27_Witness ==
    /\ pc = "done"
    /\ outcome = "returned"
    /\ \E i, j, k \in 1..Len(output) :
        /\ i < j /\ j < k
        /\ output[i].health_score = output[j].health_score
        /\ output[i].seeders > output[j].seeders
        /\ output[j].health_score > output[k].health_score
        /\ output[k].seeders > 0

---------------------------------------------------------------------------
(* Searches after registry operations *)

Registered(name) == name \in DOMAIN providers

\* the entries of the query's priority list that are registered, in order
RegisteredPriority == SelectSeq(ProviderPriority(query.media_type), Registered)

IsSearchEvent(e) == e[1] = "search"

\* C28: whatever add_provider and remove_provider make of the registry, a
\* search enters a provider only for an identifier of the query's priority
\* list that is registered at that time, at most once for each entry of the
\* list; it passes over an entry only when its identifier is not registered,
\* and doing so never ends the call; a provider registered under an
\* identifier outside the list is never entered.
C28_OnlyRegisteredPriorityProviders ==
    /\ [][(\E i \in (Len(log) + 1)..Len(log') : IsSearchEvent(log'[i]))
            => /\ pc = "loop"
               /\ idx \in 1..Len(ProviderPriority(query.media_type))
               /\ Registered(CurrentName)
               /\ log'[Len(log) + 1]
                    = Event("search", ProviderName(providers[CurrentName]), "")
               /\ providers' = providers]_vars
    /\ [][(pc = "loop" \/ pc = "yts" \/ pc = "tpb")
            => (pc' \in {"loop", "yts", "tpb", "rank"} /\ outcome' = "none")]_vars
    /\ [][(pc = "loop" /\ pc' = "loop" /\ idx' = idx + 1 /\ log' = log)
            => ~Registered(CurrentName)]_vars
    /\ [](InCall =>
            /\ Len(SelectSeq(log, IsSearchEvent))
                 <= Len(ProviderPriority(query.media_type))
            /\ Len(SelectSeq(log, IsSearchEvent)) <= idx)

C28_Witness ==
    /\ pc = "rank"
    /\ query.media_type = "movie"
    /\ ~Registered("yts")
    /\ Registered("YTS")
    /\ Registered("tpb")
    /\ Logged("result", "TPB", "nonempty")
    /\ Cardinality(ProviderSearches) = 1

---------------------------------------------------------------------------
(* The provider status *)

StatusEnds ==
    /\ status_call.pc = "iterating"
    /\ status_call'.pc \in {"returned", "raised"}

\* is_available returns and the provider's entry is stored
StatusStores == status_call.pc = "probing" /\ status_call'.pc = "iterating"

\* the requests of the is_available call that returns
NewGets ==
    SubSeq(status_gets', Len(status_gets') - status_call.probing.sent,
           Len(status_gets'))

\* C29: whatever add_provider and remove_provider make of the registry,
\* get_tracker_status ends by returning, with one entry for each registered
\* provider; each entry it stores has a boolean "available", and the entry of
\* a TPB provider says available exactly when one of the mirrors it asked
\* answered 200.
C29_OneStatusEntryPerProvider ==
    /\ [][StatusEnds
            => /\ status_call'.pc = "returned"
               /\ Cardinality(DOMAIN status_dict)
                    = Cardinality(DOMAIN providers)]_vars
    /\ [][StatusStores
            => LET entry == status_dict'[Upper(NameChars(NewGets[1][1]))]
               IN  /\ entry.available \in BOOLEAN
                   /\ entry.name = "TPB"
                        => entry.available
                            = (\E i \in 1..Len(NewGets) : NewGets[i][3] = "200")]_vars

---------------------------------------------------------------------------
(* A failed YTS search *)

YTSFailed ==
    \E class \in {"failed", "failed_after_results"} :
        Logged("answer", "YTS", class)

\* C30: in a movie search whose YTS request failed, or whose YTS answer holds
\* an entry that cannot be converted, the YTS search raises and no YTS result
\* is collected or returned, those built from earlier entries of the answer
\* included: what is returned comes from TPB only.
C30_FailedYTSContributesNothing ==
    (MovieCall /\ YTSFailed)
        => /\ Logged("result", "YTS", "raised")
           /\ "YTS" \notin Sources(all_results)
           /\ Sources(output) \subseteq {"TPB"}

C30_Witness ==
    /\ pc = "done"
    /\ outcome = "returned"
    /\ MovieCall
    /\ Logged("answer", "YTS", "failed_after_results")
    /\ Len(output) >= 1
    /\ Sources(output) = {"TPB"}

====
